---------------------------- MODULE Spec2Model ----------------------------
(***************************************************************************)
(* A model of the core of the abduction Game Boy emulator: the memory bus  *)
(* and cartridge (gameboy/memory/mod.rs, gameboy/rom.rs), the CPU          *)
(* (gameboy/cpu/mod.rs), the PPU mode machine (gameboy/ppu/mod.rs), the    *)
(* timer (gameboy/timer.rs) and the step driver (gameboy/mod.rs).          *)
(*                                                                         *)
(* Every byte array the code allocates is filled with 0xFF (memory/mod.rs  *)
(* 23, 52, 81, 102, 125, 155, 177; rom.rs 344), so an array is kept as a   *)
(* function on the offsets stored so far, every other offset holding 0xFF: *)
(* Get and Put below.                                                      *)
(* A Rust panic is the flag `panicked`; no operation runs after it.        *)
(***************************************************************************)
EXTENDS Integers, Sequences, FiniteSets, TLC

VARIABLES memory, cpu, ppu, timer, joypad, panicked, obs

vars == <<memory, cpu, ppu, timer, joypad, panicked, obs>>

---------------------------------------------------------------------------
(* u8 / u16 arithmetic *)

RECURSIVE BitAnd(_, _)
BitAnd(a, b) ==
    IF a = 0 \/ b = 0 THEN 0
    ELSE (a % 2) * (b % 2) + 2 * BitAnd(a \div 2, b \div 2)

RECURSIVE BitOr(_, _)
BitOr(a, b) ==
    IF a = 0 THEN b
    ELSE IF b = 0 THEN a
    ELSE (IF a % 2 = 1 \/ b % 2 = 1 THEN 1 ELSE 0) + 2 * BitOr(a \div 2, b \div 2)

Not8(a) == 255 - a

Bit(a, n) == (a \div (2 ^ n)) % 2

Empty == [k \in {} |-> 0]

Get(arr, k) == IF k \in DOMAIN arr THEN arr[k] ELSE 255

Put(arr, k, v) ==
    IF v = 255 /\ k \notin DOMAIN arr THEN arr ELSE (k :> v) @@ arr

---------------------------------------------------------------------------
(* The cartridge: gameboy/rom.rs *)

\* The byte at index i of the ROM image given to Gameboy::new.  The image is
\* an input: the header bytes agree with the cartridge record, the others
\* follow a pattern that differs from bank to bank.
RomByte(rom, i) ==
    CASE i = \h0147 -> rom.type_code
      [] i = \h0148 -> rom.size_code
      [] i = \h0149 -> rom.ram_code
      [] OTHER -> (17 + i + 5 * (i \div \h4000)) % 256

RomSize(size_code) == 32 * (2 ^ size_code) * 1024

RamSize(ram_code) ==
    (CASE ram_code = 0 -> 0
       [] ram_code = 2 -> 8
       [] ram_code = 3 -> 32
       [] ram_code = 4 -> 128
       [] ram_code = 5 -> 64
       [] OTHER -> 128) * 1024

\* Rom::try_from_bytes for an image whose length matches its header.
NewRom(type_code, size_code, ram_code) ==
    [ mbc |-> IF type_code = 0 THEN "NoMBC" ELSE "MBC1",
      type_code |-> type_code, size_code |-> size_code, ram_code |-> ram_code,
      rom_len |-> RomSize(size_code),
      external_len |-> RamSize(ram_code),
      external |-> Empty,
      bank1 |-> 1, bank2 |-> 0, ram_enabled |-> FALSE, alt_mode |-> FALSE ]

\* usize::MAX >> (n - 1).leading_zeros(), or 0 when n - 1 = 0: the smallest
\* 2^k - 1 that is >= n - 1.
RECURSIVE MaskFor(_)
MaskFor(n) == IF n = 0 THEN 0 ELSE 1 + 2 * MaskFor(n \div 2)

\* With no bank at all count - 1 overflows: a debug build panics there, a
\* release build wraps to usize::MAX and gets a mask of all ones, which
\* keeps every bit of the 7-bit bank numbers it is applied to.
BankMask(count) == IF count = 0 THEN 255 ELSE MaskFor(count - 1)

\* MBC1::read with the low window fixed at bank 0 in both modes: the fault
\* BankedRead has to tell from Mbc1RomIndex.
Mbc1RomIndexLowFixed(rom, address) ==
    IF address <= \h3FFF THEN address
    ELSE LET rom_bank == BitAnd(rom.bank2 * 32 + rom.bank1,
                                BankMask(rom.rom_len \div \h4000))
         IN  rom_bank * \h4000 + (address - \h4000)

Mbc1RomIndex(rom, address) ==
    IF address <= \h3FFF
    THEN LET rom_bank == BitAnd(IF rom.alt_mode THEN rom.bank2 * 32 ELSE 0,
                                BankMask(rom.rom_len \div \h4000))
         IN  rom_bank * \h4000 + address
    ELSE LET rom_bank == BitAnd(rom.bank2 * 32 + rom.bank1,
                                BankMask(rom.rom_len \div \h4000))
         IN  rom_bank * \h4000 + (address - \h4000)

RomRead(rom, address) ==
    IF rom.mbc = "NoMBC"
    THEN RomByte(rom, address)
    ELSE RomByte(rom, Mbc1RomIndex(rom, address))

\* MBC1::write that stores the low five bits in bank1 as they are: the fault
\* MbcRegisters has to tell from RomWrite.
RomWriteUncoerced(rom, address, data) ==
    IF rom.mbc = "NoMBC" THEN rom
    ELSE CASE address <= \h1FFF -> [rom EXCEPT !.ram_enabled = (data % 16 = 10)]
           [] address <= \h3FFF -> [rom EXCEPT !.bank1 = data % 32]
           [] address <= \h5FFF -> [rom EXCEPT !.bank2 = data % 4]
           [] OTHER -> [rom EXCEPT !.alt_mode = (data % 2 = 1)]

RomWrite(rom, address, data) ==
    IF rom.mbc = "NoMBC" THEN rom
    ELSE CASE address <= \h1FFF -> [rom EXCEPT !.ram_enabled = (data % 16 = 10)]
           [] address <= \h3FFF ->
                [rom EXCEPT !.bank1 = IF data % 32 = 0 THEN 1 ELSE data % 32]
           [] address <= \h5FFF -> [rom EXCEPT !.bank2 = data % 4]
           [] OTHER -> [rom EXCEPT !.alt_mode = (data % 2 = 1)]

\* The index into `external` that an access at 0xA000..0xBFFF uses.  The
\* code indexes with the bus address itself, not with address - 0xA000.
ExternalIndex(rom, address) ==
    IF rom.mbc = "NoMBC" THEN address
    ELSE LET ram_bank == BitAnd(IF rom.alt_mode THEN rom.bank2 ELSE 0,
                                BankMask(rom.external_len \div \h2000))
         IN  ram_bank * \h2000 + address

\* An access the MBC lets through to `external` (MBC1 answers 0xFF and drops
\* writes while its RAM is disabled).
ExternalReaches(rom) == rom.mbc = "NoMBC" \/ rom.ram_enabled

\* external[index] panics when the index is outside the array; with no RAM
\* bank at all, MBC1's external_bank_count() - 1 already overflows.
ExternalPanics(rom, address) ==
    ExternalReaches(rom) /\ ExternalIndex(rom, address) >= rom.external_len

ExternalRead(rom, address) ==
    IF ~ExternalReaches(rom) THEN 255
    ELSE Get(rom.external, ExternalIndex(rom, address))

ExternalWrite(rom, address, data) ==
    IF ~ExternalReaches(rom) THEN rom
    ELSE [rom EXCEPT !.external = Put(@, ExternalIndex(rom, address), data)]

---------------------------------------------------------------------------
(* The memory bus: gameboy/memory/mod.rs *)

BootLen == 256

\* Memory::new.  `boot` holds the boot image's non-zero bytes.
NewMemory(rom, boot) ==
    [ boot_mode |-> TRUE, boot |-> boot, rom |-> rom,
      vram |-> Empty, wram |-> Empty, oam |-> Empty,
      io_registers |-> Empty, hram |-> Empty ]

\* boot[address], of an image of BootLen bytes kept without its zero bytes.
BootByte(boot, address) == IF address \in DOMAIN boot THEN boot[address] ELSE 0

MemRead(mem, address) ==
    IF mem.boot_mode /\ address <= \hFF THEN BootByte(mem.boot, address)
    ELSE CASE address <= \h7FFF -> RomRead(mem.rom, address)
           [] address <= \h9FFF -> Get(mem.vram, address - \h8000)
           [] address <= \hBFFF -> ExternalRead(mem.rom, address)
           [] address <= \hDFFF -> Get(mem.wram, address - \hC000)
           [] address <= \hFDFF -> Get(mem.wram, address - \hE000)
           [] address <= \hFE9F -> Get(mem.oam, address - \hFE00)
           [] address <= \hFEFF -> 255
           [] address <= \hFF7F -> Get(mem.io_registers, address - \hFF00)
           [] OTHER -> Get(mem.hram, address - \hFF80)

ReadPanics(mem, address) ==
    /\ address >= \hA000 /\ address <= \hBFFF
    /\ ExternalPanics(mem.rom, address)

DmaLen == 160

\* The array with its 0xFF cells left out.
Sparse(arr) == [ i \in { j \in DOMAIN arr : arr[j] # 255 } |-> arr[i] ]

\* The copy loop a write to 0xFF46 runs before the register is stored:
\* oam[i] = self.read((data << 8) | i) for i = 0 .. n - 1, in order.  Turn i
\* is the only one to write oam[i], and oam[i] is the only cell it could read
\* that the loop writes (data = 0xFE), so every turn reads what the memory
\* held when the loop started.
DmaCopy(mem, data, n) ==
    [mem EXCEPT !.oam =
        Sparse([ i \in 0 .. n - 1 |-> MemRead(mem, data * 256 + i) ] @@ @)]

\* RegionWrite with the OAM arm taking the unusable region too: the fault
\* MemoryRoundTrip has to tell from RegionWrite.
RegionWriteWideOam(mem, address, data) ==
    CASE address <= \h7FFF -> [mem EXCEPT !.rom = RomWrite(@, address, data)]
      [] address <= \h9FFF -> [mem EXCEPT !.vram = Put(@, address - \h8000, data)]
      [] address <= \hBFFF -> [mem EXCEPT !.rom = ExternalWrite(@, address, data)]
      [] address <= \hDFFF -> [mem EXCEPT !.wram = Put(@, address - \hC000, data)]
      [] address <= \hFDFF -> [mem EXCEPT !.wram = Put(@, address - \hE000, data)]
      [] address <= \hFEFF -> [mem EXCEPT !.oam = Put(@, address - \hFE00, data)]
      [] address <= \hFF7F ->
           [mem EXCEPT !.io_registers = Put(@, address - \hFF00, data)]
      [] OTHER -> [mem EXCEPT !.hram = Put(@, address - \hFF80, data)]

RegionWrite(mem, address, data) ==
    CASE address <= \h7FFF -> [mem EXCEPT !.rom = RomWrite(@, address, data)]
      [] address <= \h9FFF -> [mem EXCEPT !.vram = Put(@, address - \h8000, data)]
      [] address <= \hBFFF -> [mem EXCEPT !.rom = ExternalWrite(@, address, data)]
      [] address <= \hDFFF -> [mem EXCEPT !.wram = Put(@, address - \hC000, data)]
      [] address <= \hFDFF -> [mem EXCEPT !.wram = Put(@, address - \hE000, data)]
      [] address <= \hFE9F -> [mem EXCEPT !.oam = Put(@, address - \hFE00, data)]
      [] address <= \hFEFF -> mem
      [] address <= \hFF7F ->
           [mem EXCEPT !.io_registers = Put(@, address - \hFF00, data)]
      [] OTHER -> [mem EXCEPT !.hram = Put(@, address - \hFF80, data)]

\* A latch that flips at every write to 0xFF50: the fault BootLatchHolds
\* has to tell from BootLatch.
BootLatchToggle(mem, address) ==
    IF address = \hFF50 THEN [mem EXCEPT !.boot_mode = ~@] ELSE mem

BootLatch(mem, address) ==
    IF mem.boot_mode /\ address = \hFF50 THEN [mem EXCEPT !.boot_mode = FALSE]
    ELSE mem

MemWrite(mem, address, data) ==
    LET Copy(unlatched) ==
            IF address = \hFF46 THEN DmaCopy(unlatched, data, DmaLen)
            ELSE unlatched
    IN  RegionWrite(Copy(BootLatch(mem, address)), address, data)

WritePanics(mem, address, data) ==
    \/ /\ address = \hFF46
       /\ \E i \in 0 .. DmaLen - 1 : ReadPanics(mem, data * 256 + i)
    \/ /\ address >= \hA000 /\ address <= \hBFFF
       /\ ExternalPanics(mem.rom, address)

\* Memory::request_interrupt; bit is the interrupt's mask.
RequestInterrupt(mem, bit) ==
    MemWrite(mem, \hFF0F, BitOr(MemRead(mem, \hFF0F), bit))

---------------------------------------------------------------------------
(* The machine: the fields of Gameboy (gameboy/mod.rs 56-63) as one record, *)
(* so that an operation is a function from machines to machines.            *)

Machine ==
    [ memory |-> memory, cpu |-> cpu, ppu |-> ppu, timer |-> timer,
      joypad |-> joypad, panicked |-> panicked, obs |-> obs,
      locals |-> [ low |-> 0, high |-> 0, byte |-> 0, sp |-> 0, pc |-> 0,
                   word |-> 0, opcode |-> 0, enabled |-> 0, requested |-> 0,
                   a |-> 0, b |-> 0,
                   turn_master_interrupt_on |-> FALSE ] ]

---------------------------------------------------------------------------
(* The timer: gameboy/timer.rs *)

NewTimer == [ div_cycle_count |-> 0, tima_cycle_count |-> 0 ]

TimaDivider(tac) ==
    CASE tac % 4 = 0 -> 1024
      [] tac % 4 = 1 -> 16
      [] tac % 4 = 2 -> 64
      [] OTHER -> 256

DivPeriod == 256

UpdateDiv(m) ==
    IF m.timer.div_cycle_count < DivPeriod
    THEN [m EXCEPT !.timer.div_cycle_count = @ + 1]
    ELSE [m EXCEPT !.timer.div_cycle_count = 0,
                   !.memory = MemWrite(@, \hFF04, (MemRead(@, \hFF04) + 1) % 256)]

\* An overflow that requests the interrupt but leaves the reload for later:
\* the fault TimaOverflow has to tell from UpdateTima.
UpdateTimaReloadLate(m) ==
    LET Count(tima) ==
            IF tima = 255
            THEN [m EXCEPT !.timer.tima_cycle_count = 0,
                           !.memory = MemWrite(RequestInterrupt(@, 4), \hFF05, 0),
                           !.obs.timer_requests = @ + 1]
            ELSE [m EXCEPT !.timer.tima_cycle_count = 0,
                           !.memory = MemWrite(@, \hFF05, tima + 1)]
        Gate(tac) ==
            IF Bit(tac, 2) = 0 THEN m
            ELSE IF m.timer.tima_cycle_count <= TimaDivider(tac)
            THEN [m EXCEPT !.timer.tima_cycle_count = @ + 1]
            ELSE Count(MemRead(m.memory, \hFF05))
    IN  Gate(MemRead(m.memory, \hFF07) % 8)

UpdateTima(m) ==
    LET Reload(requested) ==
            MemWrite(requested, \hFF05, MemRead(requested, \hFF06))
        Count(tima) ==
            IF tima = 255
            THEN [m EXCEPT !.timer.tima_cycle_count = 0,
                           !.memory = Reload(RequestInterrupt(@, 4)),
                           !.obs.timer_requests = @ + 1]
            ELSE [m EXCEPT !.timer.tima_cycle_count = 0,
                           !.memory = MemWrite(@, \hFF05, tima + 1)]
        Gate(tac) ==
            IF Bit(tac, 2) = 0 THEN m
            ELSE IF m.timer.tima_cycle_count <= TimaDivider(tac)
            THEN [m EXCEPT !.timer.tima_cycle_count = @ + 1]
            ELSE Count(MemRead(m.memory, \hFF05))
    IN  Gate(MemRead(m.memory, \hFF07) % 8)

TimerCycle(m) ==
    IF m.panicked THEN m
    ELSE [UpdateTima(UpdateDiv(m)) EXCEPT !.obs.timer_cycles = @ + 1]

---------------------------------------------------------------------------
(* The PPU mode machine: gameboy/ppu/mod.rs.  flagset's `!` is taken as the *)
(* complement of the bits, so clearing a STAT flag keeps bit 7.             *)

\* ScreenBuffer::new: every pixel 0.  A buffer is kept by rows, as the
\* function of the rows that are not all 0 (render_scanline writes the 160
\* pixels of one row, clear all of them).
NewScreenBuffer == [y \in {} |-> 0]

\* A row whose pixels come from the tiles and objects in VRAM and OAM.
TileRow == 4

\* Ppu::new also writes STAT, LY, SCX and SCY: see NewGameboy.
NewPpu ==
    [ cycles |-> 0, mode |-> "OAMSearch", interrupt_ongoing |-> FALSE,
      back |-> 0, buffers |-> << NewScreenBuffer, NewScreenBuffer >>,
      scanline_objects |-> << >>, window_line_counter |-> 0 ]

\* ScreenDoubleBuffer::front and ::back, and Ppu::screen
Front(p) == p.buffers[(1 - p.back) + 1]

Back(p) == p.buffers[p.back + 1]

\* set_pixel for every x of row y
SetRow(buffer, y, colour) ==
    IF colour = 0 THEN [i \in DOMAIN buffer \ {y} |-> buffer[i]]
    ELSE (y :> colour) @@ buffer

ModeBits(mode) ==
    CASE mode = "HBlank" -> 0
      [] mode = "VBlank" -> 1
      [] mode = "OAMSearch" -> 2
      [] OTHER -> 3

\* set_stat_flag(ModeBits, false) then set_stat_flag(mode, true)
SetMode(m, mode) ==
    LET Store(bits) == (bits - (bits % 4)) + ModeBits(mode)
    IN  [m EXCEPT !.ppu.mode = mode,
                  !.memory = MemWrite(@, \hFF41, Store(MemRead(@, \hFF41)))]

StatLine(m) ==
    LET Line(stat, ly, lyc) ==
            \/ Bit(stat, 3) = 1 /\ m.ppu.mode = "HBlank"
            \/ Bit(stat, 4) = 1 /\ m.ppu.mode = "VBlank"
            \/ Bit(stat, 5) = 1 /\ m.ppu.mode = "OAMSearch"
            \/ Bit(stat, 6) = 1 /\ ly = lyc
    IN  Line(MemRead(m.memory, \hFF41), MemRead(m.memory, \hFF44),
             MemRead(m.memory, \hFF45))

\* A level-triggered STAT interrupt: the fault StatEdge has to tell from
\* UpdateStatInterrupt.
UpdateStatInterruptOnLevel(m) ==
    LET Latch(cond) ==
            IF cond
            THEN [m EXCEPT !.ppu.interrupt_ongoing = TRUE,
                           !.memory = RequestInterrupt(@, 2),
                           !.obs.stat_requests = @ + 1]
            ELSE [m EXCEPT !.ppu.interrupt_ongoing = FALSE]
    IN  Latch(StatLine(m))

UpdateStatInterrupt(m) ==
    LET Latch(cond) ==
            IF m.ppu.interrupt_ongoing
            THEN [m EXCEPT !.ppu.interrupt_ongoing = cond]
            ELSE IF cond
            THEN [m EXCEPT !.ppu.interrupt_ongoing = TRUE,
                           !.memory = RequestInterrupt(@, 2),
                           !.obs.stat_requests = @ + 1]
            ELSE m
    IN  Latch(StatLine(m))

LinesPerFrame == 154

IncrementLy(m) ==
    [m EXCEPT !.memory = MemWrite(@, \hFF44,
                                  (MemRead(@, \hFF44) + 1) % LinesPerFrame),
              !.obs.ly_increments = @ + 1]

\* ObjectAttributes::new on the four bytes of entry i of the OAM; with
\* double-height objects oam_search clears bit 0 of the tile index first.
ObjectAttributes(mem, i, double) ==
    LET Byte(k) == MemRead(mem, \hFE00 + 4 * i + k)
    IN  [ y |-> Byte(0), x |-> Byte(1),
          tile_index |-> IF double THEN Byte(2) - (Byte(2) % 2) ELSE Byte(2),
          flags |-> Byte(3) ]

XTopLeft(obj) == obj.x - 8

YTopLeft(obj) == obj.y - 16

\* A search that leaves out the top row of an object: the fault
\* SearchEligibility has to tell from OamSearch.
OamSearchBelowTop(m) ==
    LET ly == MemRead(m.memory, \hFF44)
        double == Bit(MemRead(m.memory, \hFF40), 2) = 1
        all == [i \in 1 .. 40 |-> ObjectAttributes(m.memory, i - 1, double)]
        OnLine(obj) == /\ YTopLeft(obj) > ly - (IF double THEN 16 ELSE 8)
                       /\ YTopLeft(obj) < ly
        found == SelectSeq(all, OnLine)
    IN  [m EXCEPT !.ppu.scanline_objects =
                      IF Len(found) > 10 THEN SubSeq(found, 1, 10) ELSE found,
                  !.obs.searched_double = double]

\* A search that keeps the last ten objects on the line: the fault
\* SearchKeepsFirstTen has to tell from OamSearch.
OamSearchLastTen(m) ==
    LET ly == MemRead(m.memory, \hFF44)
        double == Bit(MemRead(m.memory, \hFF40), 2) = 1
        all == [i \in 1 .. 40 |-> ObjectAttributes(m.memory, i - 1, double)]
        OnLine(obj) == /\ YTopLeft(obj) > ly - (IF double THEN 16 ELSE 8)
                       /\ YTopLeft(obj) <= ly
        found == SelectSeq(all, OnLine)
    IN  [m EXCEPT !.ppu.scanline_objects =
                      IF Len(found) > 10
                      THEN SubSeq(found, Len(found) - 9, Len(found)) ELSE found,
                  !.obs.searched_double = double]

\* oam_search: the first ten objects of the OAM whose rows, 16 or 8 of them
\* by the LCDC of this moment, hold line LY.
OamSearch(m) ==
    LET ly == MemRead(m.memory, \hFF44)
        double == Bit(MemRead(m.memory, \hFF40), 2) = 1
        all == [i \in 1 .. 40 |-> ObjectAttributes(m.memory, i - 1, double)]
        OnLine(obj) == /\ YTopLeft(obj) > ly - (IF double THEN 16 ELSE 8)
                       /\ YTopLeft(obj) <= ly
        found == SelectSeq(all, OnLine)
    IN  [m EXCEPT !.ppu.scanline_objects =
                      IF Len(found) > 10 THEN SubSeq(found, 1, 10) ELSE found,
                  !.obs.searched_double = double]

\* The tile and the pixel of it get_obj_pixel fetches for an object at
\* screen pixel (px, ly), by the LCDC of the moment of rendering; x and y
\* are the i16 values cast to u8.
ObjFetch(obj, double, px, ly) ==
    LET x0 == px - XTopLeft(obj)
        y0 == ly - YTopLeft(obj)
        flip_x == Bit(obj.flags, 5) = 1
        flip_y == Bit(obj.flags, 6) = 1
        y1 == IF double THEN (IF flip_y THEN 15 - y0 ELSE y0)
              ELSE (IF flip_y THEN 7 - y0 ELSE y0)
        second == double /\ y1 > 7
    IN  [ tile |-> IF second THEN obj.tile_index + 1 ELSE obj.tile_index,
          x |-> ((IF flip_x THEN 7 - x0 ELSE x0) + 256) % 256,
          y |-> ((IF second THEN y1 - 8 ELSE y1) + 256) % 256 ]

\* Tile::get_pixel_color_index bails, and its caller unwraps.
OutOfRange(fetch) == ~(fetch.x < 8 /\ fetch.y < 8)

\* Tile::get_pixel_color_index on the master tileset render_scanline has
\* just copied from the first 0x1800 bytes of VRAM.
PixelColorIndex(mem, fetch) ==
    LET low == MemRead(mem, \h8000 + fetch.tile * 16 + fetch.y * 2)
        high == MemRead(mem, \h8000 + fetch.tile * 16 + fetch.y * 2 + 1)
    IN  Bit(high, 7 - fetch.x) * 2 + Bit(low, 7 - fetch.x)

\* get_obj_pixel for every x of line ly: the objects of the line that
\* cover x are tried by ascending x (a stable sort) until one gives a
\* colour other than 0; TRUE when one of the fetches is out of range.
ObjFetchFails(m, double, ly) ==
    LET objs == m.ppu.scanline_objects
        Covers(i, px) == px >= XTopLeft(objs[i]) /\ px < XTopLeft(objs[i]) + 8
        Before(j, i) == \/ XTopLeft(objs[j]) < XTopLeft(objs[i])
                        \/ XTopLeft(objs[j]) = XTopLeft(objs[i]) /\ j < i
        Bad(i, px) == OutOfRange(ObjFetch(objs[i], double, px, ly))
        Clear(i, px) == PixelColorIndex(m.memory, ObjFetch(objs[i], double, px, ly)) = 0
    IN  /\ objs # << >>
        /\ \E px \in 0 .. 159, i \in DOMAIN objs :
               /\ Covers(i, px)
               /\ Bad(i, px)
               /\ \A j \in DOMAIN objs :
                      (Covers(j, px) /\ Before(j, i)) =>
                          (~Bad(j, px) /\ Clear(j, px))

\* The tile of the master tileset a tilemap entry names: LCDC bit 4 clear
\* sends the entries 0..127 to the third block of tiles.
TileOf(lcdc, entry) ==
    IF Bit(lcdc, 4) = 0 /\ entry <= 127 THEN 256 + entry ELSE entry

\* get_bg_pixel: the colour index of the background at screen pixel (px, ly).
BgColorIndex(m, px, ly) ==
    LET Fetch(lcdc, x, y) ==
            LET Colour(entry) ==
                    PixelColorIndex(m.memory,
                                    [ tile |-> TileOf(lcdc, entry),
                                      x |-> x % 8, y |-> y % 8 ])
            IN  Colour(MemRead(m.memory,
                               (IF Bit(lcdc, 3) = 1 THEN \h9C00 ELSE \h9800)
                               + (y \div 8) * 32 + (x \div 8)))
    IN  Fetch(MemRead(m.memory, \hFF40),
              (px + MemRead(m.memory, \hFF43)) % 256,
              (ly + MemRead(m.memory, \hFF42)) % 256)

\* get_window_pixel: the colour index of the window at screen pixel
\* (px, ly), -1 for None.
WindowColorIndex(m, px, ly) ==
    LET Fetch(lcdc, wx, wy, y) ==
            LET Colour(entry) ==
                    PixelColorIndex(m.memory,
                                    [ tile |-> TileOf(lcdc, entry),
                                      x |-> (px + 7 - wx) % 8, y |-> y % 8 ])
            IN  IF px + 7 >= wx /\ ly >= wy
                THEN Colour(MemRead(m.memory,
                                    (IF Bit(lcdc, 6) = 1 THEN \h9C00 ELSE \h9800)
                                    + (y \div 8) * 32 + ((px + 7 - wx) \div 8)))
                ELSE -1
    IN  Fetch(MemRead(m.memory, \hFF40), MemRead(m.memory, \hFF4B),
              MemRead(m.memory, \hFF4A), m.ppu.window_line_counter)

\* The background pixel of render_scanline: the window's where there is
\* one, the background's otherwise, colour index 0 with LCDC bit 0 clear.
BgPixel(m, px, ly) ==
    LET Of(lcdc) ==
            LET Under(window) ==
                    IF window # -1 THEN window
                    ELSE IF Bit(lcdc, 0) = 1 THEN BgColorIndex(m, px, ly) ELSE 0
            IN  Under(IF Bit(lcdc, 5) = 1 /\ Bit(lcdc, 0) = 1
                      THEN WindowColorIndex(m, px, ly) ELSE -1)
    IN  Of(MemRead(m.memory, \hFF40))

\* The objects of the line tried in the order of their list: the fault
\* ObjectPriority has to tell from ObjPixel.
ObjPixelInListOrder(m, px, ly) ==
    LET Among(objs, double) ==
            LET Covers(i) == px >= XTopLeft(objs[i]) /\ px < XTopLeft(objs[i]) + 8
                Before(j, i) == j < i
                First(index) ==
                    { i \in DOMAIN objs :
                        /\ Covers(i) /\ index[i] # 0
                        /\ \A j \in DOMAIN objs :
                               (Covers(j) /\ Before(j, i)) => index[j] = 0 }
                Pixel(index, first) ==
                    IF first = {}
                    THEN [ color_index |-> 0, palette |-> 0,
                           under_bg_window |-> FALSE ]
                    ELSE LET Of(i) ==
                                 [ color_index |-> index[i],
                                   palette |-> Bit(objs[i].flags, 4),
                                   under_bg_window |-> Bit(objs[i].flags, 7) = 1 ]
                         IN  Of(CHOOSE i \in first : TRUE)
                Tried(index) == Pixel(index, First(index))
            IN  Tried([ i \in DOMAIN objs |->
                          IF Covers(i)
                          THEN PixelColorIndex(m.memory,
                                               ObjFetch(objs[i], double, px, ly))
                          ELSE 0 ])
    IN  Among(m.ppu.scanline_objects, Bit(MemRead(m.memory, \hFF40), 2) = 1)

\* get_obj_pixel: the objects of the line that cover px, sorted by x (a
\* stable sort, so by their place in the list among equals), are tried
\* until one gives a colour index other than 0; color_index 0 for None.
ObjPixel(m, px, ly) ==
    LET Among(objs, double) ==
            LET Covers(i) == px >= XTopLeft(objs[i]) /\ px < XTopLeft(objs[i]) + 8
                Before(j, i) == \/ XTopLeft(objs[j]) < XTopLeft(objs[i])
                                \/ XTopLeft(objs[j]) = XTopLeft(objs[i]) /\ j < i
                First(index) ==
                    { i \in DOMAIN objs :
                        /\ Covers(i) /\ index[i] # 0
                        /\ \A j \in DOMAIN objs :
                               (Covers(j) /\ Before(j, i)) => index[j] = 0 }
                Pixel(index, first) ==
                    IF first = {}
                    THEN [ color_index |-> 0, palette |-> 0,
                           under_bg_window |-> FALSE ]
                    ELSE LET Of(i) ==
                                 [ color_index |-> index[i],
                                   palette |-> Bit(objs[i].flags, 4),
                                   under_bg_window |-> Bit(objs[i].flags, 7) = 1 ]
                         IN  Of(CHOOSE i \in first : TRUE)
                Tried(index) == Pixel(index, First(index))
            IN  Tried([ i \in DOMAIN objs |->
                          IF Covers(i)
                          THEN PixelColorIndex(m.memory,
                                               ObjFetch(objs[i], double, px, ly))
                          ELSE 0 ])
    IN  Among(m.ppu.scanline_objects, Bit(MemRead(m.memory, \hFF40), 2) = 1)

\* get_color: entry index of a palette register.
GetColor(index, palette) ==
    CASE index = 0 -> palette % 4
      [] index = 1 -> (palette \div 4) % 4
      [] index = 2 -> (palette \div 16) % 4
      [] OTHER -> (palette \div 64) % 4

\* The colour render_scanline hands to set_pixel for (px, ly).
FinalColor(m, px, ly) ==
    LET Mix(bg, obj) ==
            LET Through(front) ==
                    GetColor(IF front THEN obj.color_index ELSE bg,
                             MemRead(m.memory,
                                     IF ~front THEN \hFF47
                                     ELSE IF obj.palette = 0 THEN \hFF48
                                     ELSE \hFF49))
            IN  Through(obj.color_index # 0 /\ ~(obj.under_bg_window /\ bg # 0))
        Objects(on) ==
            IF on THEN ObjPixel(m, px, ly)
            ELSE [ color_index |-> 0, palette |-> 0, under_bg_window |-> FALSE ]
    IN  Mix(BgPixel(m, px, ly), Objects(Bit(MemRead(m.memory, \hFF40), 1) = 1))

\* The colours of the pixels of line ly that an object of the line covers.
ObjectPixels(m, ly) ==
    LET Over(objs) ==
            [ px \in { q \in 0 .. 159 :
                         \E i \in DOMAIN objs :
                             q >= XTopLeft(objs[i]) /\ q < XTopLeft(objs[i]) + 8 }
                |-> FinalColor(m, px, ly) ]
    IN  Over(m.ppu.scanline_objects)

\* The colours render_scanline gives row ly: with the background, the
\* window and the objects all off every pixel is colour 0 of BGP.
RowColour(mem, lcdc) ==
    IF Bit(lcdc, 0) = 0 /\ Bit(lcdc, 1) = 0 THEN MemRead(mem, \hFF47) % 4
    ELSE TileRow

\* render_scanline drawing into the buffer screen() returns: the fault
\* FrontChangesAtVBlank has to tell from RenderScanline.
RenderScanlineOnFront(m) ==
    LET Draw(lcdc, ly) ==
            IF Bit(lcdc, 7) = 0
            THEN [m EXCEPT !.ppu.buffers[(1 - m.ppu.back) + 1] = NewScreenBuffer]
            ELSE [m EXCEPT !.ppu.buffers[(1 - m.ppu.back) + 1] =
                               SetRow(@, ly, RowColour(m.memory, lcdc))]
    IN  Draw(MemRead(m.memory, \hFF40), MemRead(m.memory, \hFF44))

\* render_scanline keeping the answer of get_window_pixel for x = 0: the
\* fault WindowCounter has to tell from RenderScanline.
RenderScanlineWindowAtFirst(m) ==
    LET Draw(lcdc, ly, wx, wy) ==
            IF Bit(lcdc, 7) = 0
            THEN [m EXCEPT !.ppu.buffers[m.ppu.back + 1] = NewScreenBuffer]
            ELSE IF Bit(lcdc, 1) = 1 /\ ObjFetchFails(m, Bit(lcdc, 2) = 1, ly)
            THEN [m EXCEPT !.panicked = TRUE, !.obs.fetch_fault = TRUE]
            ELSE [m EXCEPT
                    !.ppu.buffers[m.ppu.back + 1] =
                        SetRow(@, ly, RowColour(m.memory, lcdc)),
                    !.obs.obj_pixels = ObjectPixels(m, ly),
                    !.ppu.window_line_counter =
                        IF /\ Bit(lcdc, 5) = 1 /\ Bit(lcdc, 0) = 1
                           /\ 0 + 7 >= wx /\ ly >= wy
                        THEN (@ + 1) % 256 ELSE @]
    IN  Draw(MemRead(m.memory, \hFF40), MemRead(m.memory, \hFF44),
             MemRead(m.memory, \hFF4B), MemRead(m.memory, \hFF4A))

\* render_scanline: the back buffer is cleared when the screen is off and
\* gets row ly otherwise; window_drawn is overwritten for every x, so it
\* ends as the answer of get_window_pixel for x = 159.
RenderScanline(m) ==
    LET Draw(lcdc, ly, wx, wy) ==
            IF Bit(lcdc, 7) = 0
            THEN [m EXCEPT !.ppu.buffers[m.ppu.back + 1] = NewScreenBuffer]
            ELSE IF Bit(lcdc, 1) = 1 /\ ObjFetchFails(m, Bit(lcdc, 2) = 1, ly)
            THEN [m EXCEPT !.panicked = TRUE, !.obs.fetch_fault = TRUE]
            ELSE [m EXCEPT
                    !.ppu.buffers[m.ppu.back + 1] =
                        SetRow(@, ly, RowColour(m.memory, lcdc)),
                    !.obs.obj_pixels = ObjectPixels(m, ly),
                    !.ppu.window_line_counter =
                        IF /\ Bit(lcdc, 5) = 1 /\ Bit(lcdc, 0) = 1
                           /\ 159 + 7 >= wx /\ ly >= wy
                        THEN (@ + 1) % 256 ELSE @]
    IN  Draw(MemRead(m.memory, \hFF40), MemRead(m.memory, \hFF44),
             MemRead(m.memory, \hFF4B), MemRead(m.memory, \hFF4A))

\* V-Blank entered a line early: the fault VBlankOncePerSweep has to tell
\* from LastVisible.
LastVisibleEarly(ly) == ly = 142

\* ly == 143 (line 689)
LastVisible(ly) == ly = 143

\* Ppu::cycle once the mode's cycles have run out (lines 685-739).
PpuAdvance(m) ==
    LET mode == m.ppu.mode
        Visible(ly) ==
            CASE mode = "HBlank" ->
                   IF LastVisible(ly)
                   THEN [IncrementLy([SetMode(m, "VBlank") EXCEPT
                                         !.ppu.cycles = 456,
                                         !.ppu.back = 1 - @])
                            EXCEPT !.memory = RequestInterrupt(@, 1),
                                   !.obs.vblank_requests = @ + 1]
                   ELSE OamSearch(IncrementLy([SetMode(m, "OAMSearch") EXCEPT
                                                  !.ppu.cycles = 80]))
              [] mode = "VBlank" -> [m EXCEPT !.panicked = TRUE]
              [] mode = "OAMSearch" ->
                   RenderScanline([SetMode(m, "Rendering") EXCEPT
                                      !.ppu.cycles = 168])
              [] OTHER -> [SetMode(m, "HBlank") EXCEPT !.ppu.cycles = 208]
        Blank(ly) ==
            CASE ly = 152 -> IncrementLy([m EXCEPT !.ppu.cycles = 4])
              [] ly = 153 ->
                   OamSearch(
                       IncrementLy([SetMode([m EXCEPT !.ppu.window_line_counter = 0],
                                            "OAMSearch")
                                      EXCEPT !.ppu.cycles = 80 + 456 - 4]))
              [] OTHER -> IncrementLy([m EXCEPT !.ppu.cycles = 456])
        Advance(ly) ==
            IF ly <= 143 THEN Visible(ly)
            ELSE IF mode # "VBlank" THEN [m EXCEPT !.panicked = TRUE]
            ELSE Blank(ly)
    IN  Advance(MemRead(m.memory, \hFF44))

PpuCycle(m) ==
    LET Count(s) ==
            IF s.ppu.cycles > 0
            THEN [s EXCEPT !.ppu.cycles = @ - 1, !.obs.ppu_cycles = @ + 1]
            ELSE PpuAdvance([s EXCEPT !.obs.ppu_cycles = @ + 1])
    IN  Count(UpdateStatInterrupt(m))

---------------------------------------------------------------------------
(* The joypad and the machine-cycle callback: gameboy/mod.rs *)

NewJoypad == [ data |-> 224 ]

SetButton(jp, button, value) ==
    IF value THEN [jp EXCEPT !.data = BitOr(@, button)]
    ELSE [jp EXCEPT !.data = BitAnd(@, Not8(button))]

ActionButtons(jp) == jp.data \div 16

DirectionalButtons(jp) == jp.data % 16

\* gameboy/mod.rs 102-113
SampleJoypad(m) ==
    LET Request(written, pressed) ==
            IF pressed
            THEN [written EXCEPT !.memory = RequestInterrupt(@, 16),
                                 !.obs.joypad_requests = @ + 1]
            ELSE written
        Store(joyp, updated) ==
            Request([m EXCEPT !.memory =
                        MemWrite(@, \hFF00, Not8((joyp - (joyp % 16)) + updated))],
                    joyp % 16 # updated)
        Select(joyp) ==
            Store(joyp, IF Bit(joyp, 4) = 0 THEN ActionButtons(m.joypad)
                        ELSE DirectionalButtons(m.joypad))
    IN  Select(Not8(MemRead(m.memory, \hFF00)))

DotsPerTick == 4

RECURSIVE Dots(_, _)
Dots(m, n) ==
    IF n = 0 \/ m.panicked THEN m
    ELSE Dots(TimerCycle(PpuCycle(m)), n - 1)

\* The closure counting m_cycles once per dot: the fault StepCountsTicks has
\* to tell from Tick.
TickCountingDots(m) ==
    LET Sample(d) ==
            IF d.panicked THEN d
            ELSE [SampleJoypad(d) EXCEPT !.obs.m_cycles = @ + DotsPerTick,
                                         !.obs.joypad_samples = @ + 1]
    IN  IF m.panicked THEN m ELSE Sample(Dots(m, DotsPerTick))

\* The closure doing nothing while the CPU is halted: the fault PpuProgress
\* has to tell from Tick.
TickUnlessHalted(m) ==
    LET Sample(d) ==
            IF d.panicked THEN d
            ELSE [SampleJoypad(d) EXCEPT !.obs.m_cycles = @ + 1,
                                         !.obs.joypad_samples = @ + 1]
    IN  IF m.panicked \/ m.cpu.halt THEN m ELSE Sample(Dots(m, DotsPerTick))

\* The closure Gameboy::step passes to Cpu::step (gameboy/mod.rs 94-116).
Tick(m) ==
    LET Sample(d) ==
            IF d.panicked THEN d
            ELSE [SampleJoypad(d) EXCEPT !.obs.m_cycles = @ + 1,
                                         !.obs.joypad_samples = @ + 1]
    IN  IF m.panicked THEN m ELSE Sample(Dots(m, DotsPerTick))

---------------------------------------------------------------------------
(* The CPU: gameboy/cpu/mod.rs *)

\* Cpu::new with Registers::new
NewCpu ==
    [ a |-> 0, f |-> 0, b |-> 0, c |-> 0, d |-> 0, e |-> 0, h |-> 0, l |-> 0,
      sp |-> \hFFFE, pc |-> 0,
      master_interrupt_flag |-> "Off", halt |-> FALSE ]

Wrap16(n) == n % 65536

Lo(w) == w % 256

Hi(w) == w \div 256

GetReg16(c, wreg) ==
    CASE wreg = "af" -> c.a * 256 + c.f
      [] wreg = "bc" -> c.b * 256 + c.c
      [] wreg = "de" -> c.d * 256 + c.e
      [] wreg = "hl" -> c.h * 256 + c.l
      [] wreg = "sp" -> c.sp
      [] OTHER -> c.pc

SetReg16(c, wreg, value) ==
    CASE wreg = "af" -> [c EXCEPT !.a = Hi(value), !.f = Lo(value)]
      [] wreg = "bc" -> [c EXCEPT !.b = Hi(value), !.c = Lo(value)]
      [] wreg = "de" -> [c EXCEPT !.d = Hi(value), !.e = Lo(value)]
      [] wreg = "hl" -> [c EXCEPT !.h = Hi(value), !.l = Lo(value)]
      [] wreg = "sp" -> [c EXCEPT !.sp = value]
      [] OTHER -> [c EXCEPT !.pc = value]

\* Registers::set_flag; flag is the CpuFlag's mask.
SetFlag(c, flag, value) ==
    LET set == c.f - (c.f % 16)
    IN  [c EXCEPT !.f = IF value THEN BitOr(set, flag)
                        ELSE BitAnd(set, Not8(flag))]

\* The four set_flag calls that end an arithmetic arm of Cpu::execute.
SetFlags(c, zero, negative, half, carry) ==
    SetFlag(SetFlag(SetFlag(SetFlag(c, 128, zero), 64, negative), 32, half),
            16, carry)

\* POP AF that keeps the popped byte in F as it is: the fault FLowNibbleZero
\* has to tell from PopFlags.
PopFlagsUnmasked(c, low) == c

\* Operation::PopStackIntoWordReg, lines 937-943: the flags taken from the
\* popped low byte.
PopFlags(c, low) ==
    SetFlags(c, Bit(low, 7) = 1, Bit(low, 6) = 1, Bit(low, 5) = 1,
             Bit(low, 4) = 1)

\* Registers::get_flag: FlagSet::new fails on bits outside the four flags.
FlagFault(c) == c.f % 16 # 0

\* b + a + carry_flag as the add arms compute it: two overflowing_add.
Add8(b, a, carry_flag) ==
    LET res_1 == (b + a) % 256
        carry_1 == b + a > 255
        res == (res_1 + carry_flag) % 256
        carry_2 == res_1 + carry_flag > 255
    IN  [ res |-> res, zero |-> res = 0, negative |-> FALSE,
          half |-> (b % 16) + (a % 16) + carry_flag > 15,
          carry |-> carry_1 \/ carry_2 ]

\* A subtraction whose half carry leaves the carry flag out: the fault
\* AluFlags has to tell from Sub8.
Sub8HalfWithoutCarry(b, a, carry_flag) ==
    LET res_1 == (b + 256 - a) % 256
        res == (res_1 + 256 - carry_flag) % 256
    IN  [ res |-> res, zero |-> res = 0, negative |-> TRUE,
          half |-> (b % 16) < (a % 16),
          carry |-> b < a \/ res_1 < carry_flag ]

\* b - a - carry_flag as the subtract and compare arms compute it: two
\* overflowing_sub.
Sub8(b, a, carry_flag) ==
    LET res_1 == (b + 256 - a) % 256
        carry_1 == b < a
        res == (res_1 + 256 - carry_flag) % 256
        carry_2 == res_1 < carry_flag
    IN  [ res |-> res, zero |-> res = 0, negative |-> TRUE,
          half |-> (b % 16) < (a % 16) + carry_flag,
          carry |-> carry_1 \/ carry_2 ]

\* A decimal adjust that looks at the digits only and not at the half carry:
\* the fault DaaBcd has to tell from Daa.
DaaWithoutHalf(a, neg, half, carry_flag) ==
    LET high == (~neg /\ a > \h99) \/ carry_flag
        low == ~neg /\ a % 16 > 9
        correction == (IF high THEN \h60 ELSE 0) + (IF low THEN \h06 ELSE 0)
    IN  [ res |-> IF neg THEN (a + 256 - correction) % 256
                  ELSE (a + correction) % 256,
          carry |-> high ]

\* Operation::DecimalAdjustAcc: the corrected accumulator and the carry.
Daa(a, neg, half, carry_flag) ==
    LET high == (~neg /\ a > \h99) \/ carry_flag
        low == (~neg /\ a % 16 > 9) \/ half
        correction == (IF high THEN \h60 ELSE 0) + (IF low THEN \h06 ELSE 0)
    IN  [ res |-> IF neg THEN (a + 256 - correction) % 256
                  ELSE (a + correction) % 256,
          carry |-> high ]

\* Cpu::mem_write without its filter: the fault CpuWritesFiltered has to
\* tell from CpuMemWrite.
CpuMemWriteUnfiltered(mem, address, data) == MemWrite(mem, address, data)

\* Cpu::mem_write: the filter in front of Memory::write.
CpuMemWrite(mem, address, data) ==
    IF address = \hFF44 THEN mem
    ELSE MemWrite(mem, address,
                  CASE address = \hFF04 -> 0
                    [] address = \hFF41 -> data - (data % 8)
                    [] OTHER -> data)

\* What Cpu::mem_write hands to Memory::write, for the panic it may raise.
CpuWritePanics(mem, address, data) ==
    address # \hFF44 /\ WritePanics(mem, address, data)

\* The bus log of the running step: ticks, reads and CPU writes in order.
Log(m, kind, address, data) ==
    [m EXCEPT !.obs.bus = Append(@, <<kind, address, data>>)]

OnMachineCycle(m) == Log(Tick(m), "tick", 0, 0)

Word(low, high) == high * 256 + low

\* The operands of the statements below: a constant, a register, a local
\* of the running function, or an address or byte computed from one.
RECURSIVE Value(_, _)
Value(m, e) ==
    CASE e[1] = "const" -> e[2]
      [] e[1] = "reg8" -> m.cpu[e[2]]
      [] e[1] = "reg16" -> GetReg16(m.cpu, e[2])
      [] e[1] = "local" -> m.locals[e[2]]
      [] e[1] = "high_of" -> Hi(m.locals[e[2]])
      [] e[1] = "low_of" -> Lo(m.locals[e[2]])
      [] e[1] = "word" -> Word(m.locals.low, m.locals.high)
      [] e[1] = "plus" -> Wrap16(Value(m, e[2]) + e[3])
      [] e[1] = "rel" ->
           Wrap16(m.cpu.pc + 65536
                  + (IF m.locals.byte > 127 THEN m.locals.byte - 256
                     ELSE m.locals.byte))
      [] OTHER -> \hFF00 + Value(m, e[2])

Store(m, dest, value) ==
    CASE dest[1] = "reg8" -> [m EXCEPT !.cpu[dest[2]] = value]
      [] dest[1] = "reg16" -> [m EXCEPT !.cpu = SetReg16(@, dest[2], value)]
      [] OTHER -> [m EXCEPT !.locals[dest[2]] = value]

\* Cpu::mem_read into dest
Read(m, address, dest) ==
    LET Got(byte) == Log(Store(m, dest, byte), "read", address, byte)
    IN  IF ReadPanics(m.memory, address) THEN [m EXCEPT !.panicked = TRUE]
        ELSE Got(MemRead(m.memory, address))

\* Cpu::mem_write as a statement; the log keeps the byte the address read
\* before it.
Write(m, address, data) ==
    IF CpuWritePanics(m.memory, address, data)
    THEN [m EXCEPT !.panicked = TRUE]
    ELSE [m EXCEPT !.memory = CpuMemWrite(@, address, data),
                   !.obs.written = @ \cup {address},
                   !.obs.bus = Append(@, <<"write", address, data,
                                           IF ReadPanics(m.memory, address) THEN -1
                                           ELSE MemRead(m.memory, address)>>)]

\* Cpu::fetch into dest
Fetch(m, dest) == Read([m EXCEPT !.cpu.pc = Wrap16(@ + 1)], m.cpu.pc, dest)

\* IE & IF & 0x1F as the bus shows it.
Pending(mem) ==
    BitAnd(MemRead(mem, \hFFFF) % 32, MemRead(mem, \hFF0F) % 32)

\* INTERRUPT_PRIORITY searched from its last entry: the fault
\* ServicedIffEnabledAndPending has to tell from InterruptToHandle.
InterruptToHandleLast(enabled, requested) ==
    LET Last(both) ==
            IF both = 0 THEN -1
            ELSE CHOOSE k \in 0 .. 4 :
                     /\ Bit(both, k) = 1
                     /\ \A j \in k + 1 .. 4 : Bit(both, j) = 0
    IN  Last(BitAnd(enabled % 32, requested % 32))

\* The first interrupt of INTERRUPT_PRIORITY that is requested and enabled,
\* as its bit number; -1 when there is none.
InterruptToHandle(enabled, requested) ==
    LET First(both) ==
            IF both = 0 THEN -1
            ELSE CHOOSE k \in 0 .. 4 :
                     /\ Bit(both, k) = 1
                     /\ \A j \in 0 .. k - 1 : Bit(both, j) = 0
    IN  First(BitAnd(enabled % 32, requested % 32))

InterruptVector(k) == \h40 + 8 * k

---------------------------------------------------------------------------
(* The statements of Cpu::step, Cpu::handle_interrupts and Cpu::execute.   *)
(* A function body is the sequence of its statements; Run executes them    *)
(* one at a time, so every on_machine_cycle happens between the same bus   *)
(* accesses as in the code.                                                *)

T == << "tick" >>
F(dest) == << "fetch", <<"local", dest>> >>
R(address, dest) == << "read", address, dest >>
W(address, data) == << "write", address, data >>
Set(dest, value) == << "set", dest, value >>
Ime(flag) == << "ime", flag >>
Const(n) == << "const", n >>
Reg8(reg) == << "reg8", reg >>
Reg16(wreg) == << "reg16", wreg >>
Local(name) == << "local", name >>
Plus(e, n) == << "plus", e, n >>
Io(e) == << "io", e >>
Imm16 == << "word" >>
Rel == << "rel" >>
IfFlag(flag, negative, branch) == << "if_flag", flag, negative, branch >>

\* handle_interrupts without the decrement of PC: the fault ServiceEffect
\* has to tell from ServiceInterrupt.
ServiceInterruptKeepingPc(k, requested) ==
    << T,
       T, Set(Local("pc"), Reg16("pc")), Set(Local("sp"), Reg16("sp")),
       T, W(Plus(Local("sp"), 65535), <<"high_of", "pc">>),
       T, W(Plus(Local("sp"), 65534), <<"low_of", "pc">>),
       Set(Reg16("sp"), Plus(Local("sp"), 65534)),
       Set(Reg16("pc"), Const(InterruptVector(k))),
       W(Const(\hFF0F), Const(requested - 2 ^ k)),
       Ime("Off"), << "serviced", k >> >>

\* Cpu::handle_interrupts from the interrupt found on (lines 288-327).
ServiceInterrupt(k, requested) ==
    << T, Set(Reg16("pc"), Plus(Reg16("pc"), 65535)),
       T, Set(Local("pc"), Reg16("pc")), Set(Local("sp"), Reg16("sp")),
       T, W(Plus(Local("sp"), 65535), <<"high_of", "pc">>),
       T, W(Plus(Local("sp"), 65534), <<"low_of", "pc">>),
       Set(Reg16("sp"), Plus(Local("sp"), 65534)),
       Set(Reg16("pc"), Const(InterruptVector(k))),
       W(Const(\hFF0F), Const(requested - 2 ^ k)),
       Ime("Off"), << "serviced", k >> >>

\* The two pops of POP, RET and RETI.
PopWord ==
    << Set(Local("sp"), Reg16("sp")),
       T, R(Local("sp"), Local("low")),
       T, R(Plus(Local("sp"), 1), Local("high")),
       Set(Reg16("sp"), Plus(Local("sp"), 2)) >>

\* The two pushes with the bytes in the other order: the fault
\* PushPopRoundTrip has to tell from PushWord.
PushWordLowFirst ==
    << Set(Local("sp"), Reg16("sp")),
       T, W(Plus(Local("sp"), 65535), <<"low_of", "word">>),
       T, W(Plus(Local("sp"), 65534), <<"high_of", "word">>),
       Set(Reg16("sp"), Plus(Local("sp"), 65534)) >>

\* The two pushes of PUSH, RST and CALL, of the word in the local `word`.
PushWord ==
    << Set(Local("sp"), Reg16("sp")),
       T, W(Plus(Local("sp"), 65535), <<"high_of", "word">>),
       T, W(Plus(Local("sp"), 65534), <<"low_of", "word">>),
       Set(Reg16("sp"), Plus(Local("sp"), 65534)) >>

\* What a conditional arm of Cpu::execute does inside its
\* `if get_flag(flag)`: JR cc, RET cc, JP cc and CALL cc.
Branch(kind) ==
    CASE kind = "jr" -> << T, Set(Reg16("pc"), Rel) >>
      [] kind = "ret" -> PopWord \o << Set(Reg16("pc"), Imm16) >>
      [] kind = "jp" -> << T, Set(Reg16("pc"), Imm16) >>
      [] OTHER -> << T, Set(Local("word"), Reg16("pc")) >> \o PushWord
                  \o << Set(Reg16("pc"), Imm16) >>

\* Cpu::execute
Execute(op) ==
    LET name == op.name
    IN
    CASE name = "Noop" -> << >>
      [] name = "LoadImmediateIntoWordReg" ->
           << T, F("low"), T, F("high"), Set(Reg16(op.x), Imm16) >>
      [] name = "LoadRegIntoAddressInWordReg" ->
           << T, W(Reg16(op.y), Reg8(op.x)) >>
      [] name = "LoadImmediateIntoReg" ->
           << T, F("byte"), Set(Reg8(op.x), Local("byte")) >>
      [] name = "LoadAtAddressInWordRegIntoReg" ->
           << T, R(Reg16(op.x), Reg8(op.y)) >>
      [] name = "LoadImmediateIntoAddressInWordReg" ->
           << T, F("byte"), T, W(Reg16(op.x), Local("byte")) >>
      [] name = "LoadRegIntoReg" -> << Set(Reg8(op.y), Reg8(op.x)) >>
      [] name = "Halt" -> << << "halt" >> >>
      [] name = "PopStackIntoWordReg" ->
           PopWord \o << Set(Reg16(op.x), Imm16) >>
           \o (IF op.x = "af" THEN << << "pop_flags" >> >> ELSE << >>)
      [] name = "JumpImmediateAddress" ->
           << T, F("low"), T, F("high"), T, Set(Reg16("pc"), Imm16) >>
      [] name = "PushWordRegIntoStack" ->
           << T, Set(Local("word"), Reg16(op.x)) >> \o PushWord
      [] name = "CallFixedAddress" ->
           << T, Set(Local("word"), Reg16("pc")) >> \o PushWord
           \o << Set(Reg16("pc"), Const(op.x)) >>
      [] name = "Return" -> PopWord \o << T, Set(Reg16("pc"), Imm16) >>
      [] name = "ReturnAndEnableInterrupts" ->
           << Ime("On") >> \o PopWord \o << Set(Reg16("pc"), Imm16) >>
      [] name = "LoadRegIntoImmediateIORegister" ->
           << T, F("byte"), T, W(Io(Local("byte")), Reg8(op.x)) >>
      [] name = "LoadRegIntoRegIORegister" ->
           << T, W(Io(Reg8(op.y)), Reg8(op.x)) >>
      [] name = "LoadRegIntoImmediateAddress" ->
           << T, F("low"), T, F("high"), T, W(Imm16, Reg8(op.x)) >>
      [] name = "LoadImmediateIORegisterIntoReg" ->
           << T, F("byte"), T, R(Io(Local("byte")), Reg8(op.x)) >>
      [] name = "LoadAtImmediateAddressIntoReg" ->
           << T, F("low"), T, F("high"), T, R(Imm16, Reg8(op.x)) >>
      [] name \in { "AddRegIntoReg", "AddRegIntoRegWithCarry", "SubRegFromReg",
                    "SubRegFromRegWithCarry", "CompareRegAndReg" } ->
           << Set(Local("a"), Reg8(op.x)), Set(Local("b"), Reg8(op.y)),
              << "alu", name, op.y >> >>
      [] name \in { "AddAtAddressInWordRegIntoReg",
                    "AddAtAddressInWordRegIntoRegWithCarry",
                    "SubAtAddressInWordRegFromReg",
                    "SubAtAddressInWordRegFromRegWithCarry",
                    "CompareAtAddressInWordRegAndReg" } ->
           << T, R(Reg16(op.x), Local("a")), Set(Local("b"), Reg8(op.y)),
              << "alu", name, op.y >> >>
      [] name \in { "AddImmediateIntoReg", "AddImmediateIntoRegWithCarry",
                    "SubImmediateFromReg", "SubImmediateFromRegWithCarry",
                    "CompareImmediateAndReg" } ->
           << T, F("a"), Set(Local("b"), Reg8(op.x)), << "alu", name, op.x >> >>
      [] name = "DecimalAdjustAcc" -> << << "daa" >> >>
      [] name = "AddWordRegIntoWordReg" ->
           << T, << "add_word", op.x, op.y >> >>
      [] name = "RelativeJumpImmediateOffset" ->
           << F("byte"), T, T, Set(Reg16("pc"), Rel) >>
      [] name \in { "ConditionalRelativeJumpImmediateOffset",
                    "NegativeConditionalRelativeJumpImmediateOffset" } ->
           << T, F("byte"), IfFlag(op.x, op.y, "jr") >>
      [] name \in { "ConditionalReturn", "NegativeConditionalReturn" } ->
           << T, IfFlag(op.x, op.y, "ret") >>
      [] name \in { "ConditionalJumpImmediateAddress",
                    "NegativeConditionalJumpImmediateAddress" } ->
           << T, F("low"), T, F("high"), IfFlag(op.x, op.y, "jp") >>
      [] name \in { "ConditionalCallImmediateAddress",
                    "NegativeConditionalCallImmediateAddress" } ->
           << T, F("low"), T, F("high"), IfFlag(op.x, op.y, "call") >>
      [] name = "CallImmediateAddress" ->
           << T, F("low"), T, F("high"), T, Set(Local("word"), Reg16("pc")) >>
           \o PushWord \o << Set(Reg16("pc"), Imm16) >>
      [] name = "JumpToAddressInWordReg" -> << Set(Reg16("pc"), Reg16(op.x)) >>
      [] name = "DisableInterrupts" -> << Ime("Off") >>
      [] name = "EnableInterrupts" -> << Ime("TurningOn") >>
      [] OTHER -> << >>

\* An Operation with its parameters (registers, or a fixed address).
Op(name, x, y) == [name |-> name, x |-> x, y |-> y]

\* Operation::from (cpu/operation.rs): the SM83 opcode table, for the
\* opcodes the programs below are made of.
OperationFrom(opcode) ==
    CASE opcode = \h00 -> Op("Noop", "", "")
      [] opcode = \h01 -> Op("LoadImmediateIntoWordReg", "bc", "")
      [] opcode = \h21 -> Op("LoadImmediateIntoWordReg", "hl", "")
      [] opcode = \h31 -> Op("LoadImmediateIntoWordReg", "sp", "")
      [] opcode = \h06 -> Op("LoadImmediateIntoReg", "b", "")
      [] opcode = \h0E -> Op("LoadImmediateIntoReg", "c", "")
      [] opcode = \h3E -> Op("LoadImmediateIntoReg", "a", "")
      [] opcode = \h36 -> Op("LoadImmediateIntoAddressInWordReg", "hl", "")
      [] opcode = \h47 -> Op("LoadRegIntoReg", "a", "b")
      [] opcode = \h70 -> Op("LoadRegIntoAddressInWordReg", "b", "hl")
      [] opcode = \h77 -> Op("LoadRegIntoAddressInWordReg", "a", "hl")
      [] opcode = \h7E -> Op("LoadAtAddressInWordRegIntoReg", "hl", "a")
      [] opcode = \h76 -> Op("Halt", "", "")
      [] opcode = \h11 -> Op("LoadImmediateIntoWordReg", "de", "")
      [] opcode = \h27 -> Op("DecimalAdjustAcc", "", "")
      [] opcode = \h09 -> Op("AddWordRegIntoWordReg", "bc", "hl")
      [] opcode = \h19 -> Op("AddWordRegIntoWordReg", "de", "hl")
      [] opcode = \h29 -> Op("AddWordRegIntoWordReg", "hl", "hl")
      [] opcode = \h39 -> Op("AddWordRegIntoWordReg", "sp", "hl")
      [] opcode = \h80 -> Op("AddRegIntoReg", "b", "a")
      [] opcode = \h86 -> Op("AddAtAddressInWordRegIntoReg", "hl", "a")
      [] opcode = \h88 -> Op("AddRegIntoRegWithCarry", "b", "a")
      [] opcode = \h8E -> Op("AddAtAddressInWordRegIntoRegWithCarry", "hl", "a")
      [] opcode = \h90 -> Op("SubRegFromReg", "b", "a")
      [] opcode = \h96 -> Op("SubAtAddressInWordRegFromReg", "hl", "a")
      [] opcode = \h98 -> Op("SubRegFromRegWithCarry", "b", "a")
      [] opcode = \h9E -> Op("SubAtAddressInWordRegFromRegWithCarry", "hl", "a")
      [] opcode = \hB8 -> Op("CompareRegAndReg", "b", "a")
      [] opcode = \hBE -> Op("CompareAtAddressInWordRegAndReg", "hl", "a")
      [] opcode = \hC6 -> Op("AddImmediateIntoReg", "a", "")
      [] opcode = \hCE -> Op("AddImmediateIntoRegWithCarry", "a", "")
      [] opcode = \hD6 -> Op("SubImmediateFromReg", "a", "")
      [] opcode = \hDE -> Op("SubImmediateFromRegWithCarry", "a", "")
      [] opcode = \hFE -> Op("CompareImmediateAndReg", "a", "")
      [] opcode = \hD1 -> Op("PopStackIntoWordReg", "de", "")
      [] opcode = \hD5 -> Op("PushWordRegIntoStack", "de", "")
      [] opcode = \hE1 -> Op("PopStackIntoWordReg", "hl", "")
      [] opcode = \hE5 -> Op("PushWordRegIntoStack", "hl", "")
      [] opcode = \hF1 -> Op("PopStackIntoWordReg", "af", "")
      [] opcode = \hF5 -> Op("PushWordRegIntoStack", "af", "")
      [] opcode = \hC1 -> Op("PopStackIntoWordReg", "bc", "")
      [] opcode = \hC3 -> Op("JumpImmediateAddress", "", "")
      [] opcode = \hC5 -> Op("PushWordRegIntoStack", "bc", "")
      [] opcode = \hC9 -> Op("Return", "", "")
      [] opcode = \hD9 -> Op("ReturnAndEnableInterrupts", "", "")
      [] opcode = \hE0 -> Op("LoadRegIntoImmediateIORegister", "a", "")
      [] opcode = \hE2 -> Op("LoadRegIntoRegIORegister", "a", "c")
      [] opcode = \hEA -> Op("LoadRegIntoImmediateAddress", "a", "")
      [] opcode = \hF0 -> Op("LoadImmediateIORegisterIntoReg", "a", "")
      [] opcode = \hFA -> Op("LoadAtImmediateAddressIntoReg", "a", "")
      [] opcode = \hF3 -> Op("DisableInterrupts", "", "")
      [] opcode = \hFB -> Op("EnableInterrupts", "", "")
      [] opcode = \hFF -> Op("CallFixedAddress", \h38, "")
      [] opcode = \h18 -> Op("RelativeJumpImmediateOffset", "", "")
      [] opcode = \h20 ->
           Op("NegativeConditionalRelativeJumpImmediateOffset", 128, TRUE)
      [] opcode = \h28 -> Op("ConditionalRelativeJumpImmediateOffset", 128, FALSE)
      [] opcode = \h30 ->
           Op("NegativeConditionalRelativeJumpImmediateOffset", 16, TRUE)
      [] opcode = \h38 -> Op("ConditionalRelativeJumpImmediateOffset", 16, FALSE)
      [] opcode = \hC0 -> Op("NegativeConditionalReturn", 128, TRUE)
      [] opcode = \hC8 -> Op("ConditionalReturn", 128, FALSE)
      [] opcode = \hD0 -> Op("NegativeConditionalReturn", 16, TRUE)
      [] opcode = \hD8 -> Op("ConditionalReturn", 16, FALSE)
      [] opcode = \hC2 -> Op("NegativeConditionalJumpImmediateAddress", 128, TRUE)
      [] opcode = \hCA -> Op("ConditionalJumpImmediateAddress", 128, FALSE)
      [] opcode = \hC4 -> Op("NegativeConditionalCallImmediateAddress", 128, TRUE)
      [] opcode = \hCC -> Op("ConditionalCallImmediateAddress", 128, FALSE)
      [] opcode = \hCD -> Op("CallImmediateAddress", "", "")
      [] opcode = \hE9 -> Op("JumpToAddressInWordReg", "hl", "")
      [] OTHER -> Op("Unmodelled", "", "")

\* HALT that always halts: the fault HaltRule has to tell from HaltTaken.
HaltAlways(ime, pending) == TRUE

\* Operation::Halt (lines 648-661): whether HALT sets the halt flag.
HaltTaken(ime, pending) == ime = "On" \/ pending = 0

\* Promotion without the memory of how the step started: the fault EiDelay
\* has to tell from Promoted.
PromotedAtOnce(ime, turn_master_interrupt_on) ==
    IF ime = "TurningOn" THEN "On" ELSE ime

\* Cpu::step, lines 253-255.
Promoted(ime, turn_master_interrupt_on) ==
    IF turn_master_interrupt_on /\ ime = "TurningOn" THEN "On" ELSE ime

\* enabled & requested without the 0b0001_1111 masks: the fault HaltWake has
\* to tell from LocalPending.
LocalPendingUnmasked(m) == BitAnd(m.locals.enabled, m.locals.requested)

\* enabled & requested, each read through & 0b0001_1111.
LocalPending(m) == BitAnd(m.locals.enabled % 32, m.locals.requested % 32)

ReadEnabledAndRequested ==
    << R(Const(\hFFFF), Local("enabled")), R(Const(\hFF0F), Local("requested")) >>

FetchOpcode == << F("opcode"), << "interrupt_check" >> >>

\* The add, subtract and compare arms of Cpu::execute from the point where
\* the operand is in the local a and the register in the local b: the carry
\* flag read by the arms with carry, the result stored by all but the
\* compares, and the four flags.
Alu(m, name, dest) ==
    LET with_carry == name \in { "AddRegIntoRegWithCarry",
                                 "AddAtAddressInWordRegIntoRegWithCarry",
                                 "AddImmediateIntoRegWithCarry",
                                 "SubRegFromRegWithCarry",
                                 "SubAtAddressInWordRegFromRegWithCarry",
                                 "SubImmediateFromRegWithCarry" }
        adds == name \in { "AddRegIntoReg", "AddAtAddressInWordRegIntoReg",
                           "AddImmediateIntoReg", "AddRegIntoRegWithCarry",
                           "AddAtAddressInWordRegIntoRegWithCarry",
                           "AddImmediateIntoRegWithCarry" }
        stores == name \notin { "CompareRegAndReg",
                                "CompareAtAddressInWordRegAndReg",
                                "CompareImmediateAndReg" }
        Done(r) ==
            [m EXCEPT !.cpu = SetFlags(IF stores THEN [@ EXCEPT ![dest] = r.res]
                                       ELSE @,
                                       r.zero, r.negative, r.half, r.carry)]
        With(carry_flag) ==
            Done(IF adds THEN Add8(m.locals.b, m.locals.a, carry_flag)
                 ELSE Sub8(m.locals.b, m.locals.a, carry_flag))
    IN  IF with_carry /\ FlagFault(m.cpu)
        THEN [m EXCEPT !.panicked = TRUE, !.obs.flag_fault = TRUE]
        ELSE With(IF with_carry THEN Bit(m.cpu.f, 4) ELSE 0)

\* u16::saturating_add
SaturatingAdd16(x, y) == IF x + y > 65535 THEN 65535 ELSE x + y

\* A 16-bit add whose half carry is taken across bit 7: the fault
\* AddWordFlags has to tell from AddWord.
AddWordHalfAcrossByte(b, a) ==
    [ new |-> (b + a) % 65536,
      half |-> (b % 256) + (a % 256) > 255,
      overflow |-> b + a > 65535 ]

\* b.overflowing_add(a) and the half carry of Operation::AddWordRegIntoWordReg;
\* x & 0x0FFF is x % 4096.
AddWord(b, a) ==
    [ new |-> (b + a) % 65536,
      half |-> SaturatingAdd16(b % 4096, a % 4096) > \h0FFF,
      overflow |-> b + a > 65535 ]

\* Operation::AddWordRegIntoWordReg after its machine cycle: wreg_b takes the
\* sum, then Negative, Half and Carry are set.
AddWordRegIntoWordReg(m, wreg_a, wreg_b) ==
    LET a == GetReg16(m.cpu, wreg_a)
        b == GetReg16(m.cpu, wreg_b)
        r == AddWord(b, a)
    IN  [m EXCEPT !.cpu = SetFlag(SetFlag(SetFlag(SetReg16(@, wreg_b, r.new),
                                                  64, FALSE),
                                          32, r.half),
                                  16, r.overflow)]

\* Operation::DecimalAdjustAcc: get_flag of Negative, Carry and Half, the
\* accumulator corrected, then Zero, Half and Carry set.
DecimalAdjustAcc(m) ==
    LET Done(r) ==
            [m EXCEPT !.cpu = SetFlag(SetFlag(SetFlag([@ EXCEPT !.a = r.res],
                                                      128, r.res = 0),
                                              32, FALSE),
                                      16, r.carry)]
    IN  IF FlagFault(m.cpu)
        THEN [m EXCEPT !.panicked = TRUE, !.obs.flag_fault = TRUE]
        ELSE Done(Daa(m.cpu.a, Bit(m.cpu.f, 6) = 1, Bit(m.cpu.f, 5) = 1,
                      Bit(m.cpu.f, 4) = 1))

\* What a statement does to the machine.
Apply(m, u) ==
    LET kind == u[1]
    IN
    CASE kind = "tick" -> OnMachineCycle(m)
      [] kind = "fetch" -> Fetch(m, u[2])
      [] kind = "read" -> Read(m, Value(m, u[2]), u[3])
      [] kind = "write" -> Write(m, Value(m, u[2]), Value(m, u[3]))
      [] kind = "set" -> Store(m, u[2], Value(m, u[3]))
      [] kind = "ime" -> [m EXCEPT !.cpu.master_interrupt_flag = u[2]]
      [] kind = "serviced" -> [m EXCEPT !.obs.serviced = u[2]]
      [] kind = "pop_flags" -> [m EXCEPT !.cpu = PopFlags(@, m.locals.low)]
      [] kind = "alu" -> Alu(m, u[2], u[3])
      [] kind = "daa" -> DecimalAdjustAcc(m)
      [] kind = "add_word" -> AddWordRegIntoWordReg(m, u[2], u[3])
      [] kind = "if_flag" ->
           IF FlagFault(m.cpu)
           THEN [m EXCEPT !.panicked = TRUE, !.obs.flag_fault = TRUE]
           ELSE m
      [] kind = "begin" ->
           [m EXCEPT !.locals.turn_master_interrupt_on =
                        (m.cpu.master_interrupt_flag = "TurningOn")]
      [] kind = "halted" ->
           IF LocalPending(m) = 0
           THEN [m EXCEPT !.obs.stayed_halted = TRUE,
                          !.cpu.master_interrupt_flag =
                              IF m.locals.turn_master_interrupt_on THEN "On" ELSE @]
           ELSE [m EXCEPT !.cpu.halt = FALSE, !.obs.woke = TRUE]
      [] kind = "interrupt_check" ->
           [m EXCEPT !.obs.ime_at_fetch = m.cpu.master_interrupt_flag,
                     !.obs.pending_at_fetch = Pending(m.memory),
                     !.obs.pc_after_fetch = m.cpu.pc,
                     !.obs.sp_at_fetch = m.cpu.sp,
                     !.obs.opcode = m.locals.opcode]
      [] kind = "execute" ->
           [m EXCEPT !.obs.op = OperationFrom(m.locals.opcode).name]
      [] kind = "handle_interrupts" ->
           [m EXCEPT !.obs.requested_read = m.locals.requested,
                     !.obs.requests_before =
                         << m.obs.vblank_requests, m.obs.stat_requests,
                            m.obs.timer_requests, 0, m.obs.joypad_requests >>]
      [] kind = "halt_if_taken" ->
           [m EXCEPT !.cpu.halt =
                        IF HaltTaken(m.cpu.master_interrupt_flag, LocalPending(m))
                        THEN TRUE ELSE @]
      [] kind = "promote" ->
           [m EXCEPT !.cpu.master_interrupt_flag =
                        Promoted(@, m.locals.turn_master_interrupt_on)]
      [] OTHER -> m

\* The statements a statement leads to: the branch the code takes there.
Expand(m, u) ==
    LET kind == u[1]
    IN
    CASE kind = "begin" ->
           IF m.cpu.halt
           THEN ReadEnabledAndRequested \o << << "halted" >> >>
           ELSE FetchOpcode
      [] kind = "halted" ->
           IF LocalPending(m) = 0 THEN << >> ELSE FetchOpcode
      [] kind = "interrupt_check" ->
           IF m.cpu.master_interrupt_flag = "On"
           THEN ReadEnabledAndRequested \o << << "handle_interrupts" >> >>
           ELSE << << "execute" >> >>
      [] kind = "handle_interrupts" ->
           LET Handle(k) ==
                   IF k = -1 THEN << << "execute" >> >>
                   ELSE ServiceInterrupt(k, m.locals.requested % 32)
           IN  Handle(InterruptToHandle(m.locals.enabled, m.locals.requested))
      [] kind = "execute" ->
           Execute(OperationFrom(m.locals.opcode)) \o << << "promote" >> >>
      [] kind = "if_flag" ->
           IF ~FlagFault(m.cpu) /\ ((BitAnd(m.cpu.f, u[2]) # 0) # u[3])
           THEN Branch(u[4]) ELSE << >>
      [] kind = "halt" ->
           IF m.cpu.master_interrupt_flag = "On"
           THEN << << "halt_if_taken" >> >>
           ELSE ReadEnabledAndRequested \o << << "halt_if_taken" >> >>
      [] OTHER -> << >>

RECURSIVE Run(_, _)
Run(m, script) ==
    IF script = << >> \/ m.panicked THEN m
    ELSE Run(Apply(m, Head(script)), Expand(m, Head(script)) \o Tail(script))

\* Cpu::step
CpuStep(m) == Run(m, << T, << "begin" >> >>)

---------------------------------------------------------------------------
(* Observation: what the last operation did, for the properties below.    *)

NewObs ==
    [ steps |-> 0, returned |-> 0,
      total_returned |-> 0, total_ppu_cycles |-> 0, total_timer_cycles |-> 0,
      total_joypad_samples |-> 0,
      m_cycles |-> 0, ppu_cycles |-> 0, timer_cycles |-> 0, joypad_samples |-> 0,
      ly_increments |-> 0, timer_requests |-> 0, stat_requests |-> 0,
      vblank_requests |-> 0, joypad_requests |-> 0,
      bus |-> << >>, written |-> {}, opcode |-> -1, op |-> "", serviced |-> -1,
      ime_at_fetch |-> "", pending_at_fetch |-> 0, pc_after_fetch |-> 0,
      sp_at_fetch |-> 0, stayed_halted |-> FALSE, woke |-> FALSE,
      pre_cpu |-> NewCpu, pre_memory |-> Empty,
      mem_op |-> "", mem_address |-> 0, mem_data |-> 0, mem_result |-> 0,
      last_write |-> << -1, 0 >>, before_read |-> << "", 0, 0 >>, ops |-> 0,
      dots |-> 0, pre_ppu |-> NewPpu, pre_timer |-> NewTimer,
      run |-> 0, steady |-> FALSE, finished |-> << "", 0, 0, FALSE >>,
      ly_run |-> 0, ly_steady |-> FALSE, ly_finished |-> << 0, 0, FALSE >>,
      vblank_at |-> -1, vblank_gap |-> -1, vblank_in_sweep |-> 0,
      line_before |-> FALSE, line |-> FALSE, cpu_writes |-> 0,
      stat_at |-> -1, called |-> "",
      tima0 |-> -1, tima_since |-> 0, tima_gap |-> -1, tima_ticked |-> FALSE,
      div_since |-> 0, div_gap |-> -1, div_ticked |-> FALSE,
      flag_fault |-> FALSE, prev_opcode |-> -1, prev_cpu |-> NewCpu,
      last_ram_enable |-> -1, last_mode |-> -1,
      image |-> [ len |-> 0, type_code |-> 0, size_code |-> 0, ram_code |-> 0 ],
      outcome |-> "", joypad_requested |-> FALSE,
      fetch_fault |-> FALSE, written_at |-> -1, searched_double |-> FALSE,
      requested_read |-> 0, requests_before |-> << 0, 0, 0, 0, 0 >>,
      obj_pixels |-> Empty ]

\* The observation at the start of a step: the totals stay, the rest is reset.
StartObs(m) ==
    [NewObs EXCEPT !.steps = m.obs.steps,
                   !.total_returned = m.obs.total_returned,
                   !.total_ppu_cycles = m.obs.total_ppu_cycles,
                   !.total_timer_cycles = m.obs.total_timer_cycles,
                   !.total_joypad_samples = m.obs.total_joypad_samples,
                   !.written = m.obs.written,
                   !.pre_cpu = m.cpu, !.pre_memory = m.memory,
                   !.prev_opcode = m.obs.opcode, !.prev_cpu = m.obs.pre_cpu]

---------------------------------------------------------------------------
(* The emulator: gameboy/mod.rs *)

\* Ppu::new writes STAT, LY, SCX and SCY through Memory::write.
PpuNewWrites(mem) ==
    MemWrite(MemWrite(MemWrite(MemWrite(mem, \hFF41, 2), \hFF44, 0),
                      \hFF43, 0),
             \hFF42, 0)

\* Gameboy::new
NewGameboy(rom, boot) ==
    [ memory |-> PpuNewWrites(NewMemory(rom, boot)),
      cpu |-> NewCpu, ppu |-> NewPpu, timer |-> NewTimer, joypad |-> NewJoypad,
      panicked |-> FALSE, obs |-> NewObs ]

\* Gameboy::step: Cpu::step with the tick closure; the value returned is the
\* closure's m_cycles.
Step(m) ==
    LET Return(s) ==
            IF s.panicked THEN s
            ELSE [s EXCEPT !.obs.steps = @ + 1,
                           !.obs.returned = s.obs.m_cycles,
                           !.obs.total_returned = @ + s.obs.m_cycles,
                           !.obs.total_ppu_cycles = @ + s.obs.ppu_cycles,
                           !.obs.total_timer_cycles = @ + s.obs.timer_cycles,
                           !.obs.total_joypad_samples = @ + s.obs.joypad_samples]
    IN  Return(CpuStep([m EXCEPT !.obs = StartObs(m)]))

---------------------------------------------------------------------------
(* The inputs: a cartridge and a boot image.                               *)

\* The cartridges Rom::try_from_bytes accepts here: a 32 KiB ROM without MBC
\* and without RAM, and a 64 KiB MBC1 ROM whose header declares 8 KiB of RAM.
Cartridges == { NewRom(0, 0, 0), NewRom(1, 1, 2) }

\* A 256-byte boot image that starts with `bytes` and is 0x00 (NOP) after.
BootImage(bytes) ==
    [ i \in { j \in 0 .. Len(bytes) - 1 : bytes[j + 1] # 0 } |-> bytes[i + 1] ]

EI == << \hFB >>
DI == << \hF3 >>
NOP == << \h00 >>
HALT == << \h76 >>
RETI == << \hD9 >>
LdA(n) == << \h3E, n >>
LdhFromA(n) == << \hE0, n >>
LdhToA(n) == << \hF0, n >>
LdSp(low, high) == << \h31, low, high >>
LdHl(low, high) == << \h21, low, high >>
LdBc(low, high) == << \h01, low, high >>

Programs ==
    { EI \o NOP \o NOP,
      DI \o EI \o NOP \o NOP,
      EI \o DI \o NOP,
      EI \o EI \o NOP,
      EI \o HALT,
      HALT,
      EI \o RETI,
      LdA(0) \o LdhFromA(\hFF) \o EI \o NOP \o HALT,
      LdA(5) \o LdhFromA(\h07) \o LdA(0) \o LdhFromA(\h0F) \o HALT,
      LdA(\h04) \o LdhFromA(\hFF) \o EI \o NOP,
      LdA(\h1A) \o LdhFromA(\hFF) \o EI \o NOP,
      LdA(\h10) \o LdhFromA(\h0F) \o EI \o NOP,
      LdA(\h08) \o LdhFromA(\h0F) \o EI \o HALT,
      LdSp(\h00, \hD0) \o EI \o NOP,
      LdSp(\h01, \h00) \o EI \o NOP,
      LdSp(\h01, \h80) \o EI \o << \hC3, \hFF, \h00 >>,
      LdBc(\h20, \h00) \o << \hC5 >> \o RETI,
      LdBc(\h34, \h12) \o << \hC5, \h01, 0, 0, \hC1, \hC9 >>,
      << \hFF >>,
      LdA(\h40) \o LdhFromA(\h41) \o LdhToA(\h41),
      LdHl(\h41, \hFF) \o << \h36, \hFF >> \o << \h7E, \h47, \h70 >>,
      LdA(\h05) \o LdhFromA(\h44) \o LdhToA(\h44),
      LdA(\h05) \o LdhFromA(\h04) \o LdhToA(\h04),
      LdHl(\h04, \hFF) \o LdA(\h77) \o << \h77 >> \o << \h7E >>,
      LdA(\h09) \o << \h0E, \h44, \hE2 >> \o << \h0E, \h04, \hE2 >>,
      LdA(\h9C) \o << \hEA, \h41, \hFF >> \o << \hFA, \h41, \hFF >>,
      LdA(\hC0) \o LdhFromA(\h46) \o LdhToA(\h46),
      LdA(\hA0) \o LdhFromA(\h46),
      << \hC3, \h00, \h00 >>,
      LdA(\h05) \o LdhFromA(\h04) \o LdhFromA(\h44) \o << \hC3, \h02, \h00 >>,
      LdA(\h68) \o LdhFromA(\h41) \o << \hC3, \h02, \h00 >>,
      LdA(\h0A) \o << \hEA, \h00, \h00 >> \o << \hFA, \h00, \hA0 >> }

MaxSteps == 40

Init ==
    \E rom \in Cartridges, bytes \in Programs :
        LET g == NewGameboy(rom, BootImage(bytes))
        IN  /\ memory = g.memory
            /\ cpu = g.cpu
            /\ ppu = g.ppu
            /\ timer = g.timer
            /\ joypad = g.joypad
            /\ panicked = g.panicked
            /\ obs = [g.obs EXCEPT !.pre_memory = g.memory]

Becomes(m) ==
    /\ memory' = m.memory
    /\ cpu' = m.cpu
    /\ ppu' = m.ppu
    /\ timer' = m.timer
    /\ joypad' = m.joypad
    /\ panicked' = m.panicked
    /\ obs' = m.obs

\* One call of Gameboy::step; a program stops at an opcode outside
\* OperationFrom.
GameboyStep ==
    /\ ~panicked
    /\ obs.steps < MaxSteps
    /\ LET Taken(s) == s.obs.op # "Unmodelled" /\ Becomes(s)
       IN  Taken(Step(Machine))

Next == GameboyStep

Spec == Init /\ [][Next]_vars

---------------------------------------------------------------------------
(* The memory bus on its own: Memory::read and Memory::write called        *)
(* directly, as the PPU, the timer and the front end call them.            *)

\* A boot image with a different byte at every address.
NumberedBoot == [ i \in 0 .. BootLen - 1 |-> (7 * i + 3) % 256 ]

\* Writes (address, byte) and reads at both ends of every region of the map.
Writes ==
    { << \hFF50, \h01 >>, << \hFF50, \h00 >>,
      << \hFF46, \hC0 >>, << \hFF46, \h00 >>, << \hFF46, \hFE >>,
      << \hFF46, \hA0 >>, << \hFF46, \hFF >>, << \hFF46, \h80 >>,
      << \h0000, \h0A >>, << \h6000, \h01 >>,
      << \h8000, \h12 >>, << \h809F, \hFF >>, << \h9FFF, \h00 >>,
      << \hA000, \h42 >>,
      << \hC000, \h34 >>, << \hC000, \hFF >>, << \hC09F, \h9F >>,
      << \hDFFF, \h35 >>, << \hE000, \h11 >>,
      << \hFE00, \h56 >>, << \hFE9F, \h78 >>, << \hFE9F, \hFF >>,
      << \hFEA0, \h9A >>, << \hFEFF, \h00 >>,
      << \hFF80, \hBC >>, << \hFFFE, \hDE >>, << \hFFFF, \h1F >> }

Reads ==
    { \h0000, \h00FF, \h0100, \h8000, \h9FFF, \hA000, \hC000, \hC09F, \hDFFF,
      \hFE00, \hFE9F, \hFEA0, \hFEFF, \hFF46, \hFF50, \hFF80, \hFFFE }

MaxMemOps == 2

InitMem ==
    \E rom \in Cartridges :
        LET g == NewGameboy(rom, NumberedBoot)
        IN  /\ memory = g.memory
            /\ cpu = g.cpu
            /\ ppu = g.ppu
            /\ timer = g.timer
            /\ joypad = g.joypad
            /\ panicked = g.panicked
            /\ obs = [g.obs EXCEPT !.pre_memory = g.memory]

\* Memory::write(address, data)
MemoryWrite ==
    \E w \in Writes :
        /\ ~panicked
        /\ obs.ops < MaxMemOps
        /\ panicked' = WritePanics(memory, w[1], w[2])
        /\ memory' = IF panicked' THEN memory ELSE MemWrite(memory, w[1], w[2])
        /\ obs' = [obs EXCEPT !.ops = @ + 1, !.mem_op = "write",
                              !.mem_address = w[1], !.mem_data = w[2],
                              !.mem_result = 0, !.pre_memory = memory,
                              !.last_write = w]
        /\ UNCHANGED <<cpu, ppu, timer, joypad>>

\* Memory::read(address)
MemoryRead ==
    \E address \in Reads :
        /\ ~panicked
        /\ obs.ops < MaxMemOps
        /\ panicked' = ReadPanics(memory, address)
        /\ obs' = [obs EXCEPT !.ops = @ + 1, !.mem_op = "read",
                              !.mem_address = address, !.mem_data = 0,
                              !.mem_result = IF panicked' THEN 0
                                             ELSE MemRead(memory, address),
                              !.pre_memory = memory,
                              !.before_read = << obs.mem_op, obs.mem_address,
                                                 obs.mem_data >>]
        /\ UNCHANGED <<memory, cpu, ppu, timer, joypad>>

NextMem == MemoryWrite \/ MemoryRead

SpecMem == InitMem /\ [][NextMem]_vars

---------------------------------------------------------------------------
(* The PPU on its own: Ppu::cycle called dot after dot, as the closure of  *)
(* Gameboy::step calls it, on registers set up through Memory::write.      *)

\* LCDC, the enable bits of STAT, LYC and BGP at the first dot: the screen
\* on with every layer off, the screen off with LYC = 5 enabled, and every
\* layer on with all four STAT sources enabled and LYC = 144.
PpuSetups ==
    { [ lcdc |-> \h80, stat |-> \h00, lyc |-> \hFF, bgp |-> \hFF ],
      [ lcdc |-> \h00, stat |-> \h40, lyc |-> \h05, bgp |-> \hE4 ],
      [ lcdc |-> \hFF, stat |-> \h78, lyc |-> \h90, bgp |-> \h1B ] }

\* The registers of a setup, written after Ppu::new; IF starts at 0.
SetUp(mem, setup) ==
    MemWrite(MemWrite(MemWrite(MemWrite(MemWrite(mem, \hFF40, setup.lcdc),
                                        \hFF41, setup.stat + 2),
                               \hFF45, setup.lyc),
                      \hFF47, setup.bgp),
             \hFF0F, 0)

MaxDots == 138000

InitPpu ==
    \E setup \in PpuSetups :
        LET g == NewGameboy(NewRom(0, 0, 0), Empty)
            Start(mem) ==
                /\ memory = mem
                /\ obs = [g.obs EXCEPT !.pre_memory = mem]
        IN  /\ Start(SetUp(g.memory, setup))
            /\ cpu = g.cpu
            /\ ppu = g.ppu
            /\ timer = g.timer
            /\ joypad = g.joypad
            /\ panicked = g.panicked

\* What one call of Ppu::cycle did, for the properties: the dots each mode
\* and each LY lasted, the dots between V-Blank requests, the requests of
\* the running sweep of LY, and the STAT line the call saw.
Watch(old, s, ly0, ly1) ==
    LET moved == s.ppu.mode # old.ppu.mode \/ ly1 # ly0
        requested == s.obs.vblank_requests > old.obs.vblank_requests
        now == old.obs.dots + 1
    IN  [s.obs EXCEPT
            !.dots = now,
            !.pre_ppu = old.ppu,
            !.pre_memory = old.memory,
            !.run = IF moved THEN 1 ELSE @ + 1,
            !.steady = @ \/ moved,
            !.finished = IF moved
                         THEN << old.ppu.mode, ly0, old.obs.run, old.obs.steady >>
                         ELSE @,
            !.ly_run = IF ly1 # ly0 THEN 1 ELSE @ + 1,
            !.ly_steady = @ \/ ly1 # ly0,
            !.ly_finished = IF ly1 # ly0
                            THEN << ly0, old.obs.ly_run, old.obs.ly_steady >>
                            ELSE @,
            !.vblank_at = IF requested THEN now ELSE @,
            !.vblank_gap = IF requested /\ old.obs.vblank_at >= 0
                           THEN now - old.obs.vblank_at ELSE @,
            !.vblank_in_sweep = IF requested THEN @ + 1
                                ELSE IF ly1 = 0 /\ ly0 # 0 THEN 0 ELSE @,
            !.line_before = old.obs.line,
            !.line = StatLine(old),
            !.stat_at = IF s.obs.stat_requests > old.obs.stat_requests
                        THEN now ELSE @,
            !.called = "Ppu::cycle"]

\* Ppu::cycle(memory)
PpuDot ==
    /\ ~panicked
    /\ obs.dots < MaxDots
    /\ LET Seen(old, s) ==
               Becomes([s EXCEPT !.obs = Watch(old, s, MemRead(old.memory, \hFF44),
                                               MemRead(s.memory, \hFF44))])
       IN  Seen(Machine, PpuCycle(Machine))

NextPpu == PpuDot

SpecPpu == InitPpu /\ [][NextPpu]_vars

---------------------------------------------------------------------------
(* The STAT interrupt line: Ppu::cycle called dot after dot, with the CPU  *)
(* writing STAT, LYC and IF through Cpu::mem_write between machine cycles. *)

\* The enable bits of STAT and LYC at the first dot.
StatSetups ==
    { [ lcdc |-> \h80, stat |-> \h00, lyc |-> \hFF, bgp |-> \hFF ],
      [ lcdc |-> \h80, stat |-> \h08, lyc |-> \hFF, bgp |-> \hFF ],
      [ lcdc |-> \h80, stat |-> \h20, lyc |-> \hFF, bgp |-> \hFF ],
      [ lcdc |-> \h80, stat |-> \h48, lyc |-> \h01, bgp |-> \hFF ] }

\* What the CPU writes: IF cleared, the enable bits of STAT, LYC.
StatWrites ==
    { << \hFF0F, \h00 >>, << \hFF41, \h08 >>, << \hFF41, \h00 >>,
      << \hFF45, \h00 >> }

\* The dots after which the CPU writes: ends of machine cycles, in
\* Rendering, in HBlank and in the OAMSearch of line 1.
WriteDots == { 4, 200, 376, 400 }

MaxStatDots == 500

MaxCpuWrites == 1

InitStat ==
    \E setup \in StatSetups :
        LET g == NewGameboy(NewRom(0, 0, 0), Empty)
            Start(mem) ==
                /\ memory = mem
                /\ obs = [g.obs EXCEPT !.pre_memory = mem]
        IN  /\ Start(SetUp(g.memory, setup))
            /\ cpu = g.cpu
            /\ ppu = g.ppu
            /\ timer = g.timer
            /\ joypad = g.joypad
            /\ panicked = g.panicked

\* Ppu::cycle(memory)
StatDot ==
    /\ ~panicked
    /\ obs.dots < MaxStatDots
    /\ LET Seen(old, s) ==
               Becomes([s EXCEPT !.obs = Watch(old, s, MemRead(old.memory, \hFF44),
                                               MemRead(s.memory, \hFF44))])
       IN  Seen(Machine, PpuCycle(Machine))

\* Cpu::mem_write(memory, address, data)
CpuWrite ==
    \E w \in StatWrites :
        /\ ~panicked
        /\ obs.dots \in WriteDots
        /\ obs.cpu_writes < MaxCpuWrites
        /\ memory' = CpuMemWrite(memory, w[1], w[2])
        /\ obs' = [obs EXCEPT !.cpu_writes = @ + 1, !.called = "Cpu::mem_write",
                              !.mem_address = w[1], !.mem_data = w[2]]
        /\ UNCHANGED <<cpu, ppu, timer, joypad, panicked>>

NextStat == StatDot \/ CpuWrite

SpecStat == InitStat /\ [][NextStat]_vars

---------------------------------------------------------------------------
(* The timer: Timer::cycle called dot after dot, with the CPU writing DIV  *)
(* and IF through Cpu::mem_write between machine cycles.                   *)

\* TAC, TMA and TIMA at the first dot: each rate, and the timer switched off.
TimerSetups ==
    { [ tac |-> \h05, tma |-> \hAB, tima |-> \hFF ],
      [ tac |-> \h04, tma |-> \h00, tima |-> \hFE ],
      [ tac |-> \h06, tma |-> \hFF, tima |-> \hFE ],
      [ tac |-> \h07, tma |-> \h10, tima |-> \h00 ],
      [ tac |-> \h01, tma |-> \hAB, tima |-> \hFF ] }

SetUpTimer(mem, setup) ==
    MemWrite(MemWrite(MemWrite(MemWrite(mem, \hFF07, setup.tac),
                               \hFF06, setup.tma),
                      \hFF05, setup.tima),
             \hFF0F, 0)

\* What the CPU writes: DIV (any value resets it) and IF cleared.
TimerWrites == { << \hFF04, \h5A >>, << \hFF0F, \h00 >> }

TimerWriteDots == { 100, 300, 1040 }

MaxTimerDots == 2100

MaxTimerWrites == 1

InitTimer ==
    \E setup \in TimerSetups :
        LET g == NewGameboy(NewRom(0, 0, 0), Empty)
            Start(mem) ==
                /\ memory = mem
                /\ obs = [g.obs EXCEPT !.pre_memory = mem, !.tima0 = setup.tima]
        IN  /\ Start(SetUpTimer(g.memory, setup))
            /\ cpu = g.cpu
            /\ ppu = g.ppu
            /\ timer = g.timer
            /\ joypad = g.joypad
            /\ panicked = g.panicked

WatchTimer(old, s) ==
    LET div_ticked == s.timer.div_cycle_count = 0 /\ old.timer.div_cycle_count > 0
        tima_ticked == s.timer.tima_cycle_count = 0 /\ old.timer.tima_cycle_count > 0
    IN  [s.obs EXCEPT
            !.dots = @ + 1,
            !.pre_timer = old.timer,
            !.pre_memory = old.memory,
            !.div_ticked = div_ticked,
            !.div_gap = IF div_ticked THEN old.obs.div_since + 1 ELSE @,
            !.div_since = IF div_ticked THEN 0 ELSE @ + 1,
            !.tima_ticked = tima_ticked,
            !.tima_gap = IF tima_ticked THEN old.obs.tima_since + 1 ELSE @,
            !.tima_since = IF tima_ticked THEN 0 ELSE @ + 1,
            !.called = "Timer::cycle"]

\* Timer::cycle(memory)
TimerDot ==
    /\ ~panicked
    /\ obs.dots < MaxTimerDots
    /\ LET Seen(old, s) == Becomes([s EXCEPT !.obs = WatchTimer(old, s)])
       IN  Seen(Machine, TimerCycle(Machine))

\* Cpu::mem_write(memory, address, data)
TimerCpuWrite ==
    \E w \in TimerWrites :
        /\ ~panicked
        /\ obs.dots \in TimerWriteDots
        /\ obs.cpu_writes < MaxTimerWrites
        /\ memory' = CpuMemWrite(memory, w[1], w[2])
        /\ obs' = [obs EXCEPT !.cpu_writes = @ + 1, !.called = "Cpu::mem_write",
                              !.mem_address = w[1], !.mem_data = w[2],
                              !.div_since = IF w[1] = \hFF04 THEN 0 ELSE @]
        /\ UNCHANGED <<cpu, ppu, timer, joypad, panicked>>

NextTimer == TimerDot \/ TimerCpuWrite

SpecTimer == InitTimer /\ [][NextTimer]_vars

---------------------------------------------------------------------------
(* Arithmetic and the stack: Gameboy::step on boot programs that load the  *)
(* registers, some of them through POP AF of a word kept in the image, and *)
(* then add, subtract, compare, push or pop.                               *)

\* bytes followed by 0x00 up to length n.
Pad(bytes, n) == bytes \o [ i \in 1 .. n - Len(bytes) |-> 0 ]

\* Where the programs keep their data in the boot image.
DataAt == \h20

AddOpcodes == { \h80, \h86, \hC6 }
AdcOpcodes == { \h88, \h8E, \hCE }
SubOpcodes == { \h90, \h96, \hD6 }
SbcOpcodes == { \h98, \h9E, \hDE }
CpOpcodes == { \hB8, \hBE, \hFE }
AluOpcodes == AddOpcodes \cup AdcOpcodes \cup SubOpcodes \cup SbcOpcodes \cup CpOpcodes
RegOpcodes == { \h80, \h88, \h90, \h98, \hB8 }
HlOpcodes == { \h86, \h8E, \h96, \h9E, \hBE }

\* The bytes the arithmetic is tried on: both ends of each nibble.
AluBytes == { \h00, \h01, \h0F, \h10, \h7F, \h80, \hF0, \hFF }

\* The low bytes POP AF is given: carry clear and set, with and without
\* bits in the low nibble.
FlagBytes == { \h00, \h10, \h1F, \hE5, \hFF }

\* POP AF of the word (a, f), the operand b in B, behind HL or immediate,
\* then the operation.
AluProgram(opcode, f, a, b) ==
    Pad(LdSp(DataAt, 0) \o << \hF1 >>
        \o (IF opcode \in RegOpcodes THEN << \h06, b, opcode >>
            ELSE IF opcode \in HlOpcodes THEN LdHl(DataAt + 2, 0) \o << opcode >>
            ELSE << opcode, b >>),
        DataAt) \o << f, a, b >>

AluPrograms ==
    { AluProgram(opcode, f, a, b) :
        opcode \in AluOpcodes, f \in FlagBytes, a \in AluBytes, b \in AluBytes }

\* The register pairs of PUSH and POP with their opcodes (LD rr,d16 where
\* there is one).
StackPairs ==
    { [ wreg |-> "bc", ld |-> \h01, push |-> \hC5, pop |-> \hC1 ],
      [ wreg |-> "de", ld |-> \h11, push |-> \hD5, pop |-> \hD1 ],
      [ wreg |-> "hl", ld |-> \h21, push |-> \hE5, pop |-> \hE1 ],
      [ wreg |-> "af", ld |-> -1, push |-> \hF5, pop |-> \hF1 ] }

StackWords == { \h0000, \h00FF, \h1234, \hABCD, \hFF00, \hFFFF }

\* SP before the PUSH: in WRAM, at its top, in HRAM, at reset's 0xFFFE, and
\* in the cartridge ROM.
StackPointers == { \hC002, \hE000, \hFF82, \hFFFE, \h4002 }

\* The pair loaded with the word, SP set, then PUSH and POP.
StackProgram(pair, word, pointer) ==
    IF pair.wreg = "af"
    THEN Pad(LdSp(DataAt, 0) \o << \hF1 >> \o LdSp(Lo(pointer), Hi(pointer))
             \o << pair.push, pair.pop >>, DataAt) \o << Lo(word), Hi(word) >>
    ELSE << pair.ld, Lo(word), Hi(word) >> \o LdSp(Lo(pointer), Hi(pointer))
         \o << pair.push, pair.pop >>

StackPrograms ==
    { StackProgram(pair, word, pointer) :
        pair \in StackPairs, word \in StackWords, pointer \in StackPointers }

MaxCpuSteps == 6

InitCpu ==
    \E rom \in { NewRom(0, 0, 0) }, bytes \in AluPrograms \cup StackPrograms :
        LET g == NewGameboy(rom, BootImage(bytes))
        IN  /\ memory = g.memory
            /\ cpu = g.cpu
            /\ ppu = g.ppu
            /\ timer = g.timer
            /\ joypad = g.joypad
            /\ panicked = g.panicked
            /\ obs = [g.obs EXCEPT !.pre_memory = g.memory]

\* One call of Gameboy::step.
ProgramStep ==
    /\ ~panicked
    /\ obs.steps < MaxCpuSteps
    /\ LET Taken(s) == s.obs.op # "Unmodelled" /\ Becomes(s)
       IN  Taken(Step(Machine))

NextCpu == ProgramStep

SpecCpu == InitCpu /\ [][NextCpu]_vars

---------------------------------------------------------------------------
(* Decimal arithmetic: Gameboy::step on boot programs that load a packed   *)
(* BCD byte, add or subtract another and adjust.                           *)

\* The packed-BCD bytes: both nibbles at most 9.
BcdBytes == { 16 * tens + units : tens \in 0 .. 9, units \in 0 .. 9 }

\* LD A,a; ADD A,b or SUB b; DAA.
DaaProgram(opcode, a, b) == LdA(a) \o << opcode, b, \h27 >>

DaaPrograms ==
    { DaaProgram(opcode, a, b) :
        opcode \in { \hC6, \hD6 }, a \in BcdBytes, b \in BcdBytes }

MaxDaaSteps == 3

InitDaa ==
    \E rom \in { NewRom(0, 0, 0) }, bytes \in DaaPrograms :
        LET g == NewGameboy(rom, BootImage(bytes))
        IN  /\ memory = g.memory
            /\ cpu = g.cpu
            /\ ppu = g.ppu
            /\ timer = g.timer
            /\ joypad = g.joypad
            /\ panicked = g.panicked
            /\ obs = [g.obs EXCEPT !.pre_memory = g.memory]

\* One call of Gameboy::step.
DaaStep ==
    /\ ~panicked
    /\ obs.steps < MaxDaaSteps
    /\ LET Taken(s) == s.obs.op # "Unmodelled" /\ Becomes(s)
       IN  Taken(Step(Machine))

NextDaa == DaaStep

SpecDaa == InitDaa /\ [][NextDaa]_vars

---------------------------------------------------------------------------
(* The cartridge behind the bus: Memory::write and Memory::read on the     *)
(* MBC registers, the ROM windows and the external RAM, after the boot     *)
(* image has been unmapped.                                                *)

\* NoMBC without and with RAM; MBC1 (types 0x01 and 0x03) of 64 KiB with no
\* RAM, 8 KiB, 32 KiB and 64 KiB of RAM.
MbcCartridges ==
    { NewRom(0, 0, 0), NewRom(0, 0, 2), NewRom(1, 1, 0), NewRom(1, 1, 2),
      NewRom(3, 1, 3), NewRom(3, 1, 5) }

\* Writes at both ends of each register's range and of the external RAM.
MbcWrites ==
    { << \h0000, \h0A >>, << \h1FFF, \hFA >>, << \h0000, \hA0 >>,
      << \h2000, \hE0 >>, << \h3FFF, \h3F >>,
      << \h4000, \hFE >>, << \h5FFF, \h01 >>,
      << \h6000, \h01 >>, << \h7FFF, \hFE >>,
      << \hA000, \h42 >>, << \hBFFF, \h99 >> }

MbcReads == { \h0150, \h4000, \hA000, \hBFFF }

MaxMbcOps == 3

\* The machine after Gameboy::new and the write that unmaps the boot image.
Unmapped(rom) ==
    LET g == NewGameboy(rom, Empty)
    IN  [g EXCEPT !.memory = MemWrite(@, \hFF50, 1)]

InitMbc ==
    \E rom \in MbcCartridges :
        LET g == Unmapped(rom)
        IN  /\ memory = g.memory
            /\ cpu = g.cpu
            /\ ppu = g.ppu
            /\ timer = g.timer
            /\ joypad = g.joypad
            /\ panicked = g.panicked
            /\ obs = [g.obs EXCEPT !.pre_memory = g.memory]

\* What a bus write leaves in the observation.
Written(o, mem, w) ==
    [o EXCEPT !.ops = @ + 1, !.mem_op = "write",
              !.mem_address = w[1], !.mem_data = w[2],
              !.mem_result = 0, !.pre_memory = mem, !.last_write = w,
              !.last_ram_enable = IF w[1] <= \h1FFF THEN w[2] ELSE @,
              !.last_mode = IF w[1] >= \h6000 /\ w[1] <= \h7FFF THEN w[2] ELSE @]

\* What a bus read leaves in the observation.
WasRead(o, mem, address, failed) ==
    [o EXCEPT !.ops = @ + 1, !.mem_op = "read",
              !.mem_address = address, !.mem_data = 0,
              !.mem_result = IF failed THEN 0 ELSE MemRead(mem, address),
              !.pre_memory = mem,
              !.before_read = << o.mem_op, o.mem_address, o.mem_data >>]

\* Memory::write(address, data)
MbcWrite ==
    \E w \in MbcWrites :
        /\ ~panicked
        /\ obs.ops < MaxMbcOps
        /\ panicked' = WritePanics(memory, w[1], w[2])
        /\ memory' = IF panicked' THEN memory ELSE MemWrite(memory, w[1], w[2])
        /\ obs' = Written(obs, memory, w)
        /\ UNCHANGED <<cpu, ppu, timer, joypad>>

\* Memory::read(address)
MbcRead ==
    \E address \in MbcReads :
        /\ ~panicked
        /\ obs.ops < MaxMbcOps
        /\ panicked' = ReadPanics(memory, address)
        /\ obs' = WasRead(obs, memory, address, panicked')
        /\ UNCHANGED <<memory, cpu, ppu, timer, joypad>>

NextMbc == MbcWrite \/ MbcRead

SpecMbc == InitMbc /\ [][NextMbc]_vars

---------------------------------------------------------------------------
(* ROM banking: MBC1 cartridges of 2 MiB and of 64 KiB with every value of *)
(* bank1, bank2 and the mode written to the registers, then read.          *)

BankCartridges == { NewRom(1, 6, 0), NewRom(1, 1, 0) }

\* What is written to 0x2000, 0x4000 and 0x6000 before the reads.
BankSetups ==
    [ bank1 : 0 .. 31, bank2 : 0 .. 3, mode : 0 .. 1 ]

SetUpBanks(mem, setup) ==
    MemWrite(MemWrite(MemWrite(mem, \h2000, setup.bank1), \h4000, setup.bank2),
             \h6000, setup.mode)

BankWrites == { << \h2000, \h00 >>, << \h4000, \h03 >>, << \h6000, \h01 >> }

BankReads == { \h0000, \h0150, \h3FFF, \h4000, \h7FFF }

MaxBankOps == 1

InitBank ==
    \E rom \in BankCartridges, setup \in BankSetups :
        LET g == Unmapped(rom)
            Start(mem) ==
                /\ memory = mem
                /\ obs = [g.obs EXCEPT !.pre_memory = mem, !.last_mode = setup.mode]
        IN  /\ Start(SetUpBanks(g.memory, setup))
            /\ cpu = g.cpu
            /\ ppu = g.ppu
            /\ timer = g.timer
            /\ joypad = g.joypad
            /\ panicked = g.panicked

\* Memory::write(address, data)
BankWrite ==
    \E w \in BankWrites :
        /\ ~panicked
        /\ obs.ops < MaxBankOps
        /\ panicked' = WritePanics(memory, w[1], w[2])
        /\ memory' = IF panicked' THEN memory ELSE MemWrite(memory, w[1], w[2])
        /\ obs' = Written(obs, memory, w)
        /\ UNCHANGED <<cpu, ppu, timer, joypad>>

\* Memory::read(address)
BankRead ==
    \E address \in BankReads :
        /\ ~panicked
        /\ obs.ops < MaxBankOps
        /\ panicked' = ReadPanics(memory, address)
        /\ obs' = WasRead(obs, memory, address, panicked')
        /\ UNCHANGED <<memory, cpu, ppu, timer, joypad>>

NextBank == BankWrite \/ BankRead

SpecBank == InitBank /\ [][NextBank]_vars

---------------------------------------------------------------------------
(* Construction: Gameboy::new on a ROM image, given by its length and the  *)
(* header bytes Rom::try_from_bytes decides on.                            *)

HeaderEnd == 335

\* The size bytes whose 32 * 2^n * 1024 does not fit a 64-bit usize: the
\* multiplication panics where overflow is checked and wraps to 0 where it
\* is not.
SizeOverflows(size_code) == size_code >= 49

\* bytes.len() != header.rom_size.  Size bytes 16 to 48 give at least 2 GiB,
\* more than any image below.
LengthDiffers(image) ==
    image.size_code > 15 \/ image.len # RomSize(image.size_code)

\* Rom::try_from_bytes: the outcomes the build can produce.
TryFromBytes(image) ==
    IF image.len < HeaderEnd THEN { "Err" }
    ELSE IF image.len = HeaderEnd THEN { "panic" }
    ELSE IF SizeOverflows(image.size_code) THEN { "panic", "Err" }
    ELSE IF LengthDiffers(image) THEN { "Err" }
    ELSE IF image.type_code \in { 0, 1, 3 } THEN { "Ok" }
    ELSE { "Err" }

\* Lengths around the header's end and around the sizes the header can name;
\* every kind of type byte; size bytes that match, differ and overflow.
RomImages ==
    [ len : { 0, \h0133, \h014E, \h014F, \h0150, 32768, 32769, 65536, 2097152 },
      type_code : { 0, 1, 2, 3, 4, 255 },
      size_code : { 0, 1, 6, 8, 48, 49, 255 },
      ram_code : { 0, 2 } ]

\* Before the call: the image is chosen and nothing has been returned.
InitNew ==
    \E image \in RomImages :
        LET g == NewGameboy(NewRom(0, 0, 0), Empty)
        IN  /\ memory = g.memory
            /\ cpu = g.cpu
            /\ ppu = g.ppu
            /\ timer = g.timer
            /\ joypad = g.joypad
            /\ panicked = g.panicked
            /\ obs = [g.obs EXCEPT !.image = image]

\* Gameboy::new(rom, boot)
GameboyNew ==
    /\ ~panicked
    /\ obs.outcome = ""
    /\ \E outcome \in TryFromBytes(obs.image) :
           LET Returned(g) ==
                   Becomes([g EXCEPT !.panicked = (outcome = "panic"),
                                     !.obs.image = obs.image,
                                     !.obs.outcome = outcome])
           IN  IF outcome = "Ok"
               THEN Returned(NewGameboy(NewRom(obs.image.type_code,
                                               obs.image.size_code,
                                               obs.image.ram_code), Empty))
               ELSE Returned(Machine)

NextNew == GameboyNew

SpecNew == InitNew /\ [][NextNew]_vars

---------------------------------------------------------------------------
(* The joypad: the closure of Gameboy::step called tick after tick, with   *)
(* the frontend pressing and releasing buttons through joypad_mut() and    *)
(* the CPU writing the select bits of 0xFF00 in between.                   *)

\* JoypadButton: Right, Down, A and Start.
Buttons == { \h01, \h08, \h10, \h80 }

\* What the CPU writes to 0xFF00: each group selected, both, neither.
JoypWrites == { \h10, \h20, \h30, \h00 }

MaxJoypadOps == 4

InitJoypad ==
    \E rom \in { NewRom(0, 0, 0) } :
        LET g == NewGameboy(rom, Empty)
        IN  /\ memory = g.memory
            /\ cpu = g.cpu
            /\ ppu = g.ppu
            /\ timer = g.timer
            /\ joypad = g.joypad
            /\ panicked = g.panicked
            /\ obs = [g.obs EXCEPT !.pre_memory = g.memory]

\* One call of the closure Gameboy::step passes to Cpu::step.
JoypadTick ==
    /\ ~panicked
    /\ obs.ops < MaxJoypadOps
    /\ LET Seen(old, s) ==
               Becomes([s EXCEPT !.obs.ops = @ + 1,
                                 !.obs.called = "tick",
                                 !.obs.pre_memory = old.memory,
                                 !.obs.joypad_requested =
                                     s.obs.joypad_requests > old.obs.joypad_requests])
       IN  Seen(Machine, Tick(Machine))

\* gameboy.joypad_mut().set_button(button, value)
PressOrRelease ==
    \E button \in Buttons, value \in BOOLEAN :
        /\ ~panicked
        /\ obs.ops < MaxJoypadOps
        /\ joypad' = SetButton(joypad, button, value)
        /\ obs' = [obs EXCEPT !.ops = @ + 1, !.called = "set_button",
                              !.mem_address = button,
                              !.mem_data = IF value THEN 1 ELSE 0]
        /\ UNCHANGED <<memory, cpu, ppu, timer, panicked>>

\* Cpu::mem_write(memory, 0xFF00, data)
SelectButtons ==
    \E data \in JoypWrites :
        /\ ~panicked
        /\ obs.ops < MaxJoypadOps
        /\ memory' = CpuMemWrite(memory, \hFF00, data)
        /\ obs' = [obs EXCEPT !.ops = @ + 1, !.called = "Cpu::mem_write",
                              !.mem_address = \hFF00, !.mem_data = data]
        /\ UNCHANGED <<cpu, ppu, timer, joypad, panicked>>

NextJoypad == JoypadTick \/ PressOrRelease \/ SelectButtons

SpecJoypad == InitJoypad /\ [][NextJoypad]_vars

---------------------------------------------------------------------------
(* Objects on a scanline: Ppu::cycle dot after dot over the first lines of *)
(* a frame, with objects in the OAM and the CPU writing LCDC, the OAM or   *)
(* VRAM at the end of a machine cycle.                                     *)

\* LCDC on with background and objects, 8x16 and 8x8; the OAM entries are
\* << y, x, tile, flags >>: an object whose rows 8..15 hold line 1, one
\* whose row 0 is line 1 (flipped both ways), and both at the same x.
ObjSetups ==
    [ lcdc : { \h87, \h83 },
      oam : { << << 9, 8, 0, \h00 >> >>,
              << << 17, 12, 2, \h60 >> >>,
              << << 17, 8, 4, \h00 >>, << 9, 8, 0, \h00 >> >> } ]

RECURSIVE WriteOam(_, _, _)
WriteOam(mem, oam, k) ==
    IF k >= 4 * Len(oam) THEN mem
    ELSE WriteOam(MemWrite(mem, \hFE00 + k, oam[(k \div 4) + 1][(k % 4) + 1]),
                  oam, k + 1)

\* The registers and the OAM of a setup, written after Ppu::new.
SetUpObjects(mem, setup) ==
    WriteOam(MemWrite(MemWrite(mem, \hFF40, setup.lcdc), \hFF0F, 0), setup.oam, 0)

\* What the CPU writes: the object height and enable bits of LCDC, the y
\* of the first OAM entry, and the first row of tiles 0 and 4.
ObjWrites ==
    { << \hFF40, \h83 >>, << \hFF40, \h87 >>, << \hFF40, \h81 >>,
      << \hFE00, 17 >>, << \h8000, \h00 >>, << \h8040, \h00 >>,
      << \h8041, \h00 >> }

\* The dots after which the CPU writes: ends of machine cycles, before the
\* OAM search of line 1 (dot 379), and between it and the rendering of the
\* line (dot 460).
ObjWriteDots == { 4, 376, 400, 440 }

MaxObjDots == 500

MaxObjWrites == 1

InitObj ==
    \E setup \in ObjSetups :
        LET g == NewGameboy(NewRom(0, 0, 0), Empty)
            Start(mem) ==
                /\ memory = mem
                /\ obs = [g.obs EXCEPT !.pre_memory = mem]
        IN  /\ Start(SetUpObjects(g.memory, setup))
            /\ cpu = g.cpu
            /\ ppu = g.ppu
            /\ timer = g.timer
            /\ joypad = g.joypad
            /\ panicked = g.panicked

\* Ppu::cycle(memory)
ObjDot ==
    /\ ~panicked
    /\ obs.dots < MaxObjDots
    /\ LET Seen(old, s) ==
               Becomes([s EXCEPT !.obs.dots = @ + 1,
                                 !.obs.pre_ppu = old.ppu,
                                 !.obs.pre_memory = old.memory,
                                 !.obs.called = "Ppu::cycle"])
       IN  Seen(Machine, PpuCycle(Machine))

\* Cpu::mem_write(memory, address, data)
ObjCpuWrite ==
    \E w \in ObjWrites :
        /\ ~panicked
        /\ obs.dots \in ObjWriteDots
        /\ obs.cpu_writes < MaxObjWrites
        /\ memory' = CpuMemWrite(memory, w[1], w[2])
        /\ obs' = [obs EXCEPT !.cpu_writes = @ + 1, !.called = "Cpu::mem_write",
                              !.mem_address = w[1], !.mem_data = w[2],
                              !.written_at = obs.dots]
        /\ UNCHANGED <<cpu, ppu, timer, joypad, panicked>>

NextObj == ObjDot \/ ObjCpuWrite

SpecObj == InitObj /\ [][NextObj]_vars

---------------------------------------------------------------------------
(* Interrupts arriving while one is serviced: programs that enable the     *)
(* timer and the H-Blank source of STAT, request interrupts by hand and    *)
(* turn IME on so that the service falls where a request arrives.          *)

RECURSIVE Nops(_)
Nops(n) == IF n = 0 THEN << >> ELSE NOP \o Nops(n - 1)

\* SP in work RAM, IE, STAT, TIMA, TAC and IF written, then EI after a
\* number of NOPs.
ServiceProgram(ie, requested, tac, tima, stat, nops) ==
    LdSp(\h00, \hD0) \o LdA(ie) \o LdhFromA(\hFF) \o LdA(stat) \o LdhFromA(\h41)
        \o LdA(tima) \o LdhFromA(\h05) \o LdA(tac) \o LdhFromA(\h07)
        \o LdA(requested) \o LdhFromA(\h0F) \o Nops(nops) \o EI \o NOP

ServicePrograms ==
    { ServiceProgram(ie, requested, tac, tima, stat, nops) :
          ie \in { \h01, \h1F }, requested \in { \h01, \h09 },
          tac \in { \h05, \h00 }, tima \in { \hFD, \hFE },
          stat \in { \h00, \h08 }, nops \in { 0, 1, 10 } }

MaxServiceSteps == 26

InitService ==
    \E rom \in { NewRom(0, 0, 0) }, bytes \in ServicePrograms :
        LET g == NewGameboy(rom, BootImage(bytes))
        IN  /\ memory = g.memory
            /\ cpu = g.cpu
            /\ ppu = g.ppu
            /\ timer = g.timer
            /\ joypad = g.joypad
            /\ panicked = g.panicked
            /\ obs = [g.obs EXCEPT !.pre_memory = g.memory]

\* One call of Gameboy::step.
ServiceStep ==
    /\ ~panicked
    /\ obs.steps < MaxServiceSteps
    /\ LET Taken(s) == s.obs.op # "Unmodelled" /\ Becomes(s)
       IN  Taken(Step(Machine))

NextService == ServiceStep

SpecService == InitService /\ [][NextService]_vars

---------------------------------------------------------------------------
(* Halting: programs that set IE, start the timer, clear IF (or leave the   *)
(* three unused bits of it set), turn IME on or not, and halt.              *)

HaltProgram(ie, requested, tima, tac, ei) ==
    LdSp(\h00, \hD0) \o LdA(ie) \o LdhFromA(\hFF) \o LdA(tima) \o LdhFromA(\h05)
        \o LdA(tac) \o LdhFromA(\h07) \o LdA(requested) \o LdhFromA(\h0F)
        \o (IF ei THEN EI \o NOP ELSE << >>) \o HALT \o NOP \o HALT

HaltPrograms ==
    { HaltProgram(ie, requested, tima, tac, ei) :
          ie \in { \h04, \hE4, \h00 }, requested \in { \h00, \hE0 },
          tima \in { \hFC, \hFE }, tac \in { \h05, \h00 }, ei \in BOOLEAN }

MaxHaltSteps == 24

InitHalt ==
    \E rom \in { NewRom(0, 0, 0) }, bytes \in HaltPrograms :
        LET g == NewGameboy(rom, BootImage(bytes))
        IN  /\ memory = g.memory
            /\ cpu = g.cpu
            /\ ppu = g.ppu
            /\ timer = g.timer
            /\ joypad = g.joypad
            /\ panicked = g.panicked
            /\ obs = [g.obs EXCEPT !.pre_memory = g.memory]

\* One call of Gameboy::step.
HaltStep ==
    /\ ~panicked
    /\ obs.steps < MaxHaltSteps
    /\ LET Taken(s) == s.obs.op # "Unmodelled" /\ Becomes(s)
       IN  Taken(Step(Machine))

NextHalt == HaltStep

SpecHalt == InitHalt /\ [][NextHalt]_vars

---------------------------------------------------------------------------
(* LY and the mode over a frame: Ppu::cycle called dot after dot, with the *)
(* CPU writing LY and STAT through Cpu::mem_write between machine cycles.  *)

\* The screen on with every layer off, and the screen off.
LySetups ==
    { [ lcdc |-> \h80, stat |-> \h00, lyc |-> \hFF, bgp |-> \hFF ],
      [ lcdc |-> \h00, stat |-> \h00, lyc |-> \hFF, bgp |-> \hFF ] }

\* What the CPU writes: a V-Blank line and line 0 to LY, mode 3 to STAT.
LyWrites == { << \hFF44, \h90 >>, << \hFF44, \h00 >>, << \hFF41, \h07 >> }

\* The dots after which the CPU writes: in the OAMSearch of line 0, in the
\* HBlank of line 0 and in V-Blank.
LyWriteDots == { 4, 400, 66000 }

MaxLyDots == 71200

MaxLyWrites == 1

InitLy ==
    \E setup \in LySetups :
        LET g == NewGameboy(NewRom(0, 0, 0), Empty)
            Start(mem) ==
                /\ memory = mem
                /\ obs = [g.obs EXCEPT !.pre_memory = mem]
        IN  /\ Start(SetUp(g.memory, setup))
            /\ cpu = g.cpu
            /\ ppu = g.ppu
            /\ timer = g.timer
            /\ joypad = g.joypad
            /\ panicked = g.panicked

\* Ppu::cycle(memory)
LyDot ==
    /\ ~panicked
    /\ obs.dots < MaxLyDots
    /\ LET Seen(old, s) ==
               Becomes([s EXCEPT !.obs.dots = old.obs.dots + 1,
                                 !.obs.called = "Ppu::cycle"])
       IN  Seen(Machine, PpuCycle(Machine))

\* Cpu::mem_write(memory, address, data)
LyCpuWrite ==
    \E w \in LyWrites :
        /\ ~panicked
        /\ obs.dots \in LyWriteDots
        /\ obs.cpu_writes < MaxLyWrites
        /\ memory' = CpuMemWrite(memory, w[1], w[2])
        /\ obs' = [obs EXCEPT !.cpu_writes = @ + 1, !.called = "Cpu::mem_write",
                              !.mem_address = w[1], !.mem_data = w[2]]
        /\ UNCHANGED <<cpu, ppu, timer, joypad, panicked>>

NextLy == LyDot \/ LyCpuWrite

SpecLy == InitLy /\ [][NextLy]_vars

---------------------------------------------------------------------------
(* Progress: Gameboy::step called for ever on programs that never leave    *)
(* their last instruction.                                                 *)

\* IE cleared and HALT: halted for ever; and the screen switched off, then
\* JR to itself.
LivePrograms ==
    { LdA(0) \o LdhFromA(\hFF) \o HALT,
      LdA(0) \o LdhFromA(\h40) \o << \h18, \hFE >> }

\* The state kept from one step to the next.  The timer counts with a
\* period of its own (257 * 256 dots for DIV), which neither Ppu::cycle nor
\* these programs read: its counters, DIV and TIMA are put back to what
\* they were before the step, and of the record of the step only the ticks,
\* the increments of LY and the V-Blank requests are kept.
Untimed(old, s) ==
    LET Restore(registers, k) ==
            IF k \in DOMAIN old.memory.io_registers
            THEN (k :> old.memory.io_registers[k]) @@ registers
            ELSE [j \in DOMAIN registers \ {k} |-> registers[j]]
    IN  [s EXCEPT !.timer = old.timer,
                  !.memory.io_registers = Restore(Restore(@, 4), 5),
                  !.obs = [NewObs EXCEPT !.called = "step",
                                         !.returned = s.obs.returned,
                                         !.ly_increments = s.obs.ly_increments,
                                         !.vblank_requests = s.obs.vblank_requests]]

InitLive ==
    \E rom \in { NewRom(0, 0, 0) }, bytes \in LivePrograms :
        LET g == NewGameboy(rom, BootImage(bytes))
        IN  /\ memory = g.memory
            /\ cpu = g.cpu
            /\ ppu = g.ppu
            /\ timer = g.timer
            /\ joypad = g.joypad
            /\ panicked = g.panicked
            /\ obs = g.obs

\* One call of Gameboy::step.
LiveStep ==
    /\ ~panicked
    /\ Becomes(Untimed(Machine, Step(Machine)))

NextLive == LiveStep

\* The host calls step() again as soon as it has returned: weak fairness of
\* LiveStep, with ENABLED <<LiveStep>>_vars written out.  A step that returns
\* has ticked, so it has changed the PPU: LiveStep is enabled exactly when
\* no step has panicked.
FairSteps == []<>panicked \/ []<><<LiveStep>>_vars

SpecLive == InitLive /\ [][NextLive]_vars /\ FairSteps

---------------------------------------------------------------------------
(* The OAM search: the call of Ppu::cycle that ends the HBlank of a line,  *)
(* or the last line of V-Blank, with objects in the OAM.                   *)

\* OAM entries << y, x, tile, flags >> from entry 0 on, x = 8 + the entry's
\* index: objects whose top row is line 0, 4 and -7; thirteen entries of
\* which eleven start at line 2 and one at line 14; objects that start at
\* lines -15, 21 and 8.
SearchLayouts ==
    { << << 16, 8, 3, \h00 >>, << 0, 9, 0, \h00 >>, << 20, 10, 5, \h00 >>,
         << 9, 11, 7, \h40 >> >>,
      << << 18, 8, 1, \h00 >>, << 18, 9, 1, \h00 >>, << 18, 10, 1, \h00 >>,
         << 18, 11, 1, \h00 >>, << 0, 12, 1, \h00 >>, << 18, 13, 1, \h00 >>,
         << 18, 14, 1, \h00 >>, << 30, 15, 1, \h00 >>, << 18, 16, 1, \h00 >>,
         << 18, 17, 1, \h00 >>, << 18, 18, 1, \h00 >>, << 18, 19, 1, \h00 >>,
         << 18, 20, 1, \h00 >> >>,
      << << 1, 8, 1, \h00 >>, << 37, 9, 1, \h00 >>, << 24, 10, 2, \h00 >> >> }

\* The line whose HBlank (or, for 153, whose V-Blank) is at its last dot.
SearchLines == 0 .. 20 \cup { 153 }

MaxSearchDots == 1

InitSearch ==
    \E lcdc \in { \h87, \h83 }, oam \in SearchLayouts, ly \in SearchLines :
        LET g == NewGameboy(NewRom(0, 0, 0), Empty)
            mode == IF ly = 153 THEN "VBlank" ELSE "HBlank"
            AtLine(m) ==
                SetMode([m EXCEPT !.memory = MemWrite(@, \hFF44, ly)], mode)
            Start(m) ==
                /\ memory = m.memory
                /\ ppu = m.ppu
                /\ obs = [g.obs EXCEPT !.pre_memory = m.memory]
            Entries(mem) ==
                [mem EXCEPT !.oam = [k \in 0 .. 4 * Len(oam) - 1 |->
                                        oam[(k \div 4) + 1][(k % 4) + 1]]]
            Loaded(mem) == Entries(MemWrite(MemWrite(mem, \hFF40, lcdc), \hFF0F, 0))
        IN  /\ Start(AtLine([g EXCEPT !.memory = Loaded(@)]))
            /\ cpu = g.cpu
            /\ timer = g.timer
            /\ joypad = g.joypad
            /\ panicked = g.panicked

\* Ppu::cycle(memory)
SearchDot ==
    /\ ~panicked
    /\ obs.dots < MaxSearchDots
    /\ LET Seen(old, s) ==
               Becomes([s EXCEPT !.obs.dots = @ + 1,
                                 !.obs.pre_ppu = old.ppu,
                                 !.obs.pre_memory = old.memory,
                                 !.obs.called = "Ppu::cycle"])
       IN  Seen(Machine, PpuCycle(Machine))

NextSearch == SearchDot

SpecSearch == InitSearch /\ [][NextSearch]_vars

---------------------------------------------------------------------------
(* A line with objects: Ppu::cycle called dot after dot from the end of an *)
(* HBlank to the rendering of the next line, with tiles in VRAM and        *)
(* overlapping objects in the OAM.                                         *)

\* Tile 1 is transparent in its left half and colour 2 in its right half,
\* tile 2 is colour 1, tile 4 colour 0; the tiles VRAM does not hold are
\* colour 3.  The first four entries of tilemap 0 name tile 4.
PixelVram ==
    [ k \in (16 .. 47) \cup (64 .. 79) \cup (6144 .. 6147) |->
        CASE k >= 6144 -> 4
          [] k >= 64 -> 0
          [] k >= 32 -> IF k % 2 = 0 THEN \hFF ELSE \h00
          [] OTHER -> IF k % 2 = 0 THEN \h00 ELSE \h0F ]

\* OAM entries << y, x, tile, flags >>, all on lines 0..7: the entry with
\* the smaller x is the later one; two entries at the same x; an entry under
\* the background before one over it; an entry transparent where the next
\* one is not; the same flipped.
PixelLayouts ==
    { << << 16, 18, 3, \h00 >>, << 16, 14, 1, \h10 >> >>,
      << << 16, 18, 2, \h10 >>, << 16, 18, 3, \h00 >> >>,
      << << 16, 18, 3, \h80 >>, << 16, 20, 2, \h00 >> >>,
      << << 16, 18, 1, \h00 >>, << 16, 20, 2, \h10 >> >>,
      << << 16, 18, 1, \h20 >>, << 16, 22, 2, \h90 >> >> }

\* The background on (colour 0 under the objects), the window on from
\* pixel 12 (colour 3), the background off; objects on and 8 rows high.
\* BGP is 0xE4, OBP0 0x6C and OBP1 0xB4.
PixelLcdcs == { \h93, \hF3, \h92 }

MaxPixelDots == 84

InitPixel ==
    \E lcdc \in PixelLcdcs, oam \in PixelLayouts, ly \in { 2, 6 } :
        LET g == NewGameboy(NewRom(0, 0, 0), Empty)
            Registers(mem) ==
                MemWrite(MemWrite(MemWrite(MemWrite(MemWrite(MemWrite(MemWrite(
                    mem, \hFF40, lcdc), \hFF47, \hE4), \hFF48, \h6C),
                    \hFF49, \hB4), \hFF4B, 19), \hFF4A, 0), \hFF0F, 0)
            Loaded(mem) ==
                [mem EXCEPT !.vram = PixelVram,
                            !.oam = [k \in 0 .. 4 * Len(oam) - 1 |->
                                        oam[(k \div 4) + 1][(k % 4) + 1]]]
            AtLine(m) ==
                SetMode([m EXCEPT !.memory = MemWrite(@, \hFF44, ly)], "HBlank")
            Start(m) ==
                /\ memory = m.memory
                /\ ppu = m.ppu
                /\ obs = [g.obs EXCEPT !.pre_memory = m.memory]
        IN  /\ Start(AtLine([g EXCEPT !.memory = Loaded(Registers(@))]))
            /\ cpu = g.cpu
            /\ timer = g.timer
            /\ joypad = g.joypad
            /\ panicked = g.panicked

\* Ppu::cycle(memory)
PixelDot ==
    /\ ~panicked
    /\ obs.dots < MaxPixelDots
    /\ LET Seen(old, s) ==
               Becomes([s EXCEPT !.obs.dots = @ + 1,
                                 !.obs.pre_ppu = old.ppu,
                                 !.obs.pre_memory = old.memory,
                                 !.obs.called = "Ppu::cycle"])
       IN  Seen(Machine, PpuCycle(Machine))

NextPixel == PixelDot

SpecPixel == InitPixel /\ [][NextPixel]_vars

---------------------------------------------------------------------------
(* The window's line counter over a frame: Ppu::cycle called dot after     *)
(* dot with the window at several places.                                  *)

\* LCDC, WX and WY: the window over the whole screen; at the last pixel of
\* lines 140..143; from pixel 93 of line 10 on; off the screen to the right;
\* switched on without the background bit; and the screen off.
WindowSetups ==
    { [ lcdc |-> \hB1, wx |-> 7, wy |-> 0 ],
      [ lcdc |-> \hB1, wx |-> 166, wy |-> 140 ],
      [ lcdc |-> \hB1, wx |-> 100, wy |-> 10 ],
      [ lcdc |-> \hB1, wx |-> 167, wy |-> 0 ],
      [ lcdc |-> \hB0, wx |-> 7, wy |-> 0 ],
      [ lcdc |-> \h31, wx |-> 7, wy |-> 0 ] }

MaxWindowDots == 71300

InitWindow ==
    \E setup \in WindowSetups :
        LET g == NewGameboy(NewRom(0, 0, 0), Empty)
            Registers(mem) ==
                MemWrite(MemWrite(MemWrite(MemWrite(
                    mem, \hFF40, setup.lcdc), \hFF4B, setup.wx),
                    \hFF4A, setup.wy), \hFF0F, 0)
            Start(mem) ==
                /\ memory = mem
                /\ obs = [g.obs EXCEPT !.pre_memory = mem]
        IN  /\ Start(Registers(g.memory))
            /\ cpu = g.cpu
            /\ ppu = g.ppu
            /\ timer = g.timer
            /\ joypad = g.joypad
            /\ panicked = g.panicked

\* Ppu::cycle(memory)
WindowDot ==
    /\ ~panicked
    /\ obs.dots < MaxWindowDots
    /\ LET Seen(old, s) ==
               Becomes([s EXCEPT !.obs.dots = @ + 1,
                                 !.obs.pre_ppu = old.ppu,
                                 !.obs.called = "Ppu::cycle"])
       IN  Seen(Machine, PpuCycle(Machine))

NextWindow == WindowDot

SpecWindow == InitWindow /\ [][NextWindow]_vars

---------------------------------------------------------------------------
(* Machine cycles: one opcode after a prologue that puts a return address   *)
(* on the stack and leaves Z and C in each of four combinations.            *)

\* Z and C clear (the flags of Cpu::new), Z alone, Z and C, C alone.
FlagPrologues ==
    { << >>, LdA(1) \o << \hD6, 1 >>, LdA(1) \o << \hC6, \hFF >>,
      LdA(0) \o << \hD6, 1 >> }

\* NOP, ADD A,B, LD A,d8, LD BC,d16, JR, JR cc, RET cc, RET, RETI, JP cc,
\* JP, CALL cc, CALL, JP HL, RST, PUSH and POP.
CountedOpcodes ==
    { \h00, \h80, \h3E, \h01, \h18, \h20, \h28, \h30, \h38,
      \hC0, \hC8, \hD0, \hD8, \hC9, \hD9, \hC2, \hCA, \hC3, \hC4, \hCC, \hCD,
      \hE9, \hFF, \hC5, \hC1 }

\* SP in work RAM and 0x0030 pushed, the prologue, then the opcode followed
\* by the operand bytes 0x30 0x00.
CycleProgram(prologue, opcode) ==
    LdSp(\h00, \hD0) \o LdBc(\h30, \h00) \o << \hC5 >> \o prologue
        \o << opcode, \h30, \h00 >>

CyclePrograms ==
    { CycleProgram(prologue, opcode) :
          prologue \in FlagPrologues, opcode \in CountedOpcodes }

MaxCycleSteps == 7

InitCycles ==
    \E rom \in { NewRom(0, 0, 0) }, bytes \in CyclePrograms :
        LET g == NewGameboy(rom, BootImage(bytes))
        IN  /\ memory = g.memory
            /\ cpu = g.cpu
            /\ ppu = g.ppu
            /\ timer = g.timer
            /\ joypad = g.joypad
            /\ panicked = g.panicked
            /\ obs = [g.obs EXCEPT !.pre_memory = g.memory]

\* One call of Gameboy::step.
CycleStep ==
    /\ ~panicked
    /\ obs.steps < MaxCycleSteps
    /\ LET Taken(s) == s.obs.op # "Unmodelled" /\ Becomes(s)
       IN  Taken(Step(Machine))

NextCycles == CycleStep

SpecCycles == InitCycles /\ [][NextCycles]_vars

---------------------------------------------------------------------------
(* Properties.                                                             *)

TickCount(bus) == Cardinality({ i \in 1 .. Len(bus) : bus[i][1] = "tick" })

\* The last bus event of the step is a CPU write to `address`.
EndsWithWriteTo(address) ==
    /\ Len(obs.bus) > 0
    /\ obs.bus[Len(obs.bus)][1] = "write"
    /\ obs.bus[Len(obs.bus)][2] = address

LastWrite == obs.bus[Len(obs.bus)]

LowestBit(bits) == CHOOSE k \in 0 .. 7 : Bit(bits, k) = 1 /\ bits % (2 ^ k) = 0

\* C1: step() returns the number of machine-cycle ticks of the step; every
\* tick runs Ppu::cycle and Timer::cycle 4 times and samples the joypad once;
\* so over any run #Ppu::cycle = #Timer::cycle = 4 * (sum of returned values).
StepCountsTicks ==
    ~panicked =>
        /\ obs.returned = TickCount(obs.bus)
        /\ obs.ppu_cycles = 4 * obs.returned
        /\ obs.timer_cycles = 4 * obs.returned
        /\ obs.joypad_samples = obs.returned
        /\ obs.total_ppu_cycles = obs.total_timer_cycles
        /\ obs.total_ppu_cycles = 4 * obs.total_returned
        /\ obs.total_joypad_samples = obs.total_returned

StepCountsTicksWitness ==
    ~panicked /\ obs.steps >= 5 /\ obs.returned = 5 /\ obs.total_returned >= 12

\* C2: a step that fetches an opcode services an interrupt iff, after the
\* fetch, IME = On and IE & IF & 0x1F # 0; it services the pending interrupt
\* with the lowest bit number, only that one, and does not execute the
\* fetched opcode; with IME Off or TurningOn no interrupt is serviced.
ServicedIffEnabledAndPending ==
    ~panicked =>
        /\ obs.ime_at_fetch = "" => obs.serviced = -1
        /\ obs.ime_at_fetch # "" =>
              (obs.serviced # -1 <=>
                  (obs.ime_at_fetch = "On" /\ obs.pending_at_fetch # 0))
        /\ obs.ime_at_fetch \in {"Off", "TurningOn"} => obs.serviced = -1
        /\ obs.serviced # -1 =>
              /\ obs.serviced = LowestBit(obs.pending_at_fetch)
              /\ cpu.pc = \h40 + 8 * obs.serviced
              /\ obs.op = ""
              /\ \A r \in {"a", "f", "b", "c", "d", "e", "h", "l"} :
                     cpu[r] = obs.pre_cpu[r]
        /\ (obs.ime_at_fetch # "" /\ obs.serviced = -1) => obs.op # ""

ServicedIffEnabledAndPendingWitness ==
    /\ ~panicked
    /\ obs.serviced = 1
    /\ Bit(obs.pending_at_fetch, 3) = 1
    /\ Bit(obs.pending_at_fetch, 4) = 1

\* C3: servicing interrupt bit k pushes the address of the opcode that was
\* fetched and not executed (PC after the fetch, minus 1), high byte at SP-1
\* and low byte at SP-2, decreases SP by 2, sets PC to 0x40 + 8k, clears bit
\* k of IF, sets IME to Off, and the step takes exactly 5 machine cycles.
ServiceEffect ==
    (~panicked /\ obs.serviced # -1) =>
        LET k == obs.serviced
            return == Wrap16(obs.pc_after_fetch + 65535)
            sp == obs.sp_at_fetch
            writes == SelectSeq(obs.bus, LAMBDA e : e[1] = "write")
            Ram(a) == (a >= \hC000 /\ a <= \hDFFF) \/ (a >= \hFF80 /\ a <= \hFFFE)
        IN  /\ Len(writes) = 3
            /\ writes[1][2] = Wrap16(sp + 65535) /\ writes[1][3] = return \div 256
            /\ writes[2][2] = Wrap16(sp + 65534) /\ writes[2][3] = return % 256
            /\ (Ram(Wrap16(sp + 65535)) /\ Ram(Wrap16(sp + 65534))) =>
                   /\ MemRead(memory, Wrap16(sp + 65535)) = return \div 256
                   /\ MemRead(memory, Wrap16(sp + 65534)) = return % 256
            /\ cpu.sp = Wrap16(sp + 65534)
            /\ cpu.pc = \h40 + 8 * k
            /\ Bit(MemRead(memory, \hFF0F), k) = 0
            /\ cpu.master_interrupt_flag = "Off"
            /\ obs.returned = 5

ServiceEffectWitness ==
    /\ ~panicked
    /\ obs.serviced = 0
    /\ obs.sp_at_fetch = \hD000
    /\ MemRead(memory, \hCFFE) = 5

\* C4 as stated: after EI executes, IME is TurningOn at the end of that
\* step (and so no interrupt can be serviced during the following step).
EiLeavesTurningOn ==
    (~panicked /\ obs.op = "EnableInterrupts") =>
        cpu.master_interrupt_flag = "TurningOn"

\* C4: after EI executes in a step that did not start with IME = TurningOn,
\* IME is TurningOn at the end of that step; a step that starts with IME =
\* TurningOn services no interrupt and ends with IME = On unless its
\* instruction is DI (then Off), also when that instruction is another EI;
\* RETI sets IME to On with no delay.
EiDelay ==
    (~panicked /\ obs.steps > 0) =>
        /\ (obs.op = "EnableInterrupts"
               /\ obs.pre_cpu.master_interrupt_flag # "TurningOn") =>
              cpu.master_interrupt_flag = "TurningOn"
        /\ obs.pre_cpu.master_interrupt_flag = "TurningOn" =>
              /\ obs.serviced = -1
              /\ cpu.master_interrupt_flag =
                     IF obs.op = "DisableInterrupts" THEN "Off" ELSE "On"
        /\ obs.op = "ReturnAndEnableInterrupts" =>
              cpu.master_interrupt_flag = "On"

\* DI; EI; NOP has run: IME is On and nothing was serviced on the way.
EiDelayWitness ==
    /\ ~panicked
    /\ obs.steps = 3
    /\ Get(memory.boot, 0) = \hF3 /\ Get(memory.boot, 1) = \hFB
    /\ obs.op = "Noop"
    /\ obs.pre_cpu.master_interrupt_flag = "TurningOn"
    /\ cpu.master_interrupt_flag = "On"

\* C5: HALT sets the halt flag when IME = On; with IME not On it sets the
\* flag only if IE & IF & 0x1F = 0, and otherwise the flag stays clear and
\* execution goes on with the next instruction.
HaltRule ==
    (~panicked /\ obs.op = "Halt") =>
        /\ cpu.halt <=> (obs.ime_at_fetch = "On" \/ obs.pending_at_fetch = 0)
        /\ cpu.pc = obs.pc_after_fetch

HaltRuleWitness ==
    /\ ~panicked
    /\ obs.op = "Halt"
    /\ obs.ime_at_fetch # "On"
    /\ obs.pending_at_fetch # 0
    /\ ~cpu.halt

\* C7: a CPU write of v to STAT (0xFF41) leaves bits 0-2 of STAT as they
\* were before the write and sets the upper bits to those of v.
StatWriteKeepsLowBits ==
    (~panicked /\ EndsWithWriteTo(\hFF41)) =>
        /\ MemRead(memory, \hFF41) % 8 = LastWrite[4] % 8
        /\ MemRead(memory, \hFF41) \div 8 = LastWrite[3] \div 8

\* C8: a CPU write to 0xFF44 leaves LY as it was, LY changing over a step
\* only by the PPU's increments LY <- (LY + 1) mod 154; a CPU write of any
\* value to 0xFF04 leaves DIV reading 0x00.
CpuWritesFiltered ==
    ~panicked =>
        /\ MemRead(memory, \hFF44) =
               (MemRead(obs.pre_memory, \hFF44) + obs.ly_increments) % 154
        /\ EndsWithWriteTo(\hFF44) => MemRead(memory, \hFF44) = LastWrite[4]
        /\ EndsWithWriteTo(\hFF04) => MemRead(memory, \hFF04) = 0

\* The CPU has written DIV, LY has moved on to 1, and the CPU has just
\* written 5 to LY again.
CpuWritesFilteredWitness ==
    /\ ~panicked
    /\ EndsWithWriteTo(\hFF44)
    /\ LastWrite[3] = 5
    /\ MemRead(memory, \hFF44) = 1
    /\ \hFF04 \in obs.written

InRam(a) ==
    \/ a >= \h8000 /\ a <= \h9FFF
    \/ a >= \hC000 /\ a <= \hDFFF
    \/ a >= \hFE00 /\ a <= \hFE9F
    \/ a >= \hFF80 /\ a <= \hFFFE

Unusable(a) == a >= \hFEA0 /\ a <= \hFEFF

\* C6: while boot mode is on a read at an address <= 0x00FF returns the boot
\* image's byte; a write of any value to 0xFF50 leaves boot mode off; once
\* off it is off after every later operation; and then a read at
\* 0x0000-0x00FF returns the cartridge ROM's byte.
BootLatchHolds ==
    ~panicked =>
        /\ (obs.mem_op = "read" /\ obs.mem_address <= \hFF) =>
              obs.mem_result = IF memory.boot_mode
                               THEN NumberedBoot[obs.mem_address]
                               ELSE RomByte(memory.rom, obs.mem_address)
        /\ (obs.mem_op = "write" /\ obs.mem_address = \hFF50) =>
              ~memory.boot_mode
        /\ ~obs.pre_memory.boot_mode => ~memory.boot_mode

BootLatchHoldsWitness ==
    /\ ~panicked
    /\ obs.mem_op = "read"
    /\ obs.mem_address = \hFF
    /\ obs.before_read[1] = "write" /\ obs.before_read[2] = \hFF50
    /\ obs.mem_result = RomByte(memory.rom, \hFF)
    /\ obs.mem_result # NumberedBoot[\hFF]

\* C9: in VRAM, WRAM, OAM and HRAM (0xFF80-0xFFFE) a write of v at a
\* followed by a read at a returns v; in 0xFEA0-0xFEFF a read returns 0xFF
\* and a write changes no memory.
MemoryRoundTrip ==
    ~panicked =>
        /\ (obs.mem_op = "write" /\ InRam(obs.mem_address)) =>
              MemRead(memory, obs.mem_address) = obs.mem_data
        /\ (obs.mem_op = "read" /\ InRam(obs.mem_address)
               /\ obs.before_read[1] = "write"
               /\ obs.before_read[2] = obs.mem_address) =>
              obs.mem_result = obs.before_read[3]
        /\ (obs.mem_op = "read" /\ Unusable(obs.mem_address)) =>
              obs.mem_result = 255
        /\ (obs.mem_op = "write" /\ Unusable(obs.mem_address)) =>
              memory = obs.pre_memory

MemoryRoundTripWitness ==
    /\ ~panicked
    /\ obs.mem_op = "read"
    /\ obs.mem_address = \hFE9F
    /\ obs.before_read = << "write", \hFE9F, \h78 >>
    /\ obs.mem_result = \h78

\* C10: a write of d to 0xFF46 completes within the write, leaving OAM[i]
\* equal to the byte read at (d << 8) | i for every i in 0..159, and changes
\* no memory but OAM and the DMA register.
DmaCopiesBlock ==
    (obs.mem_op = "write" /\ obs.mem_address = \hFF46) =>
        /\ ~panicked
        /\ \A i \in 0 .. 159 :
               Get(memory.oam, i) = MemRead(obs.pre_memory, obs.mem_data * 256 + i)
        /\ MemRead(memory, \hFF46) = obs.mem_data
        /\ \A a \in { \h0000, \h0100, \h8000, \h809F, \hC000, \hC09F, \hFF00,
                      \hFF0F, \hFF41, \hFF44, \hFF45, \hFF47, \hFF50, \hFF80,
                      \hFFFE, \hFFFF } :
               MemRead(memory, a) = MemRead(obs.pre_memory, a)
        /\ memory.boot_mode = obs.pre_memory.boot_mode
        /\ memory.rom = obs.pre_memory.rom
        /\ memory.vram = obs.pre_memory.vram
        /\ memory.wram = obs.pre_memory.wram
        /\ memory.hram = obs.pre_memory.hram

\* The same, for the writes that return.
DmaCopiesBlockIfReturns == panicked \/ DmaCopiesBlock

\* C11: counting one dot per Ppu::cycle call, in steady state every line
\* LY in 0..143 spends 80 dots in OAMSearch, 168 in Rendering and 208 in
\* HBlank, LY increments every 456 dots, V-Blank is the 10 lines 144..153 of
\* 456 dots each, and consecutive V-Blank requests are 70224 dots apart.
PpuLineTiming ==
    /\ (obs.finished[4] /\ obs.finished[2] <= 143) =>
          obs.finished[3] = CASE obs.finished[1] = "OAMSearch" -> 80
                              [] obs.finished[1] = "Rendering" -> 168
                              [] OTHER -> 208
    /\ obs.ly_finished[3] => obs.ly_finished[2] = 456
    /\ (obs.finished[4] /\ obs.finished[2] >= 144) => obs.finished[1] = "VBlank"
    /\ obs.vblank_gap \in {-1, 70224}

\* What Ppu::cycle does: a mode set with cycles = n lasts n + 1 calls, so a
\* line takes 81 + 169 + 209 = 459 dots; LY = 0 stays 533 dots in
\* OAMSearch, LY = 153 lasts 5 dots and is in mode OAMSearch only in the
\* call that leaves it; V-Blank requests are 70666 dots apart.
PpuLineTimingOfCode ==
    /\ (obs.finished[4] /\ obs.finished[2] <= 143) =>
          obs.finished[3] = CASE obs.finished[1] = "OAMSearch" ->
                                   IF obs.finished[2] = 0 THEN 533 ELSE 81
                              [] obs.finished[1] = "Rendering" -> 169
                              [] OTHER -> 209
    /\ obs.ly_finished[3] =>
          obs.ly_finished[2] = CASE obs.ly_finished[1] = 0 -> 533 + 169 + 209
                                 [] obs.ly_finished[1] <= 143 -> 459
                                 [] obs.ly_finished[1] <= 152 -> 457
                                 [] OTHER -> 5
    /\ (obs.finished[4] /\ obs.finished[2] >= 144) => obs.finished[1] = "VBlank"
    /\ obs.vblank_gap \in {-1, 70666}

\* C12: in every sweep of LY through 0..153 the PPU requests the V-Blank
\* interrupt (IF bit 0) exactly once, in the Ppu::cycle call in which the
\* mode goes from HBlank to VBlank, LY goes from 143 to 144 and the buffers
\* are swapped, and in no other call.
VBlankOncePerSweep ==
    (~panicked /\ obs.dots > 0) =>
        LET requested == obs.vblank_at = obs.dots
            ly0 == MemRead(obs.pre_memory, \hFF44)
            ly1 == MemRead(memory, \hFF44)
        IN  /\ requested <=> (obs.pre_ppu.mode = "HBlank" /\ ppu.mode = "VBlank")
            /\ requested <=> (ly0 = 143 /\ ly1 = 144)
            /\ requested <=> ppu.back # obs.pre_ppu.back
            /\ requested => Bit(MemRead(memory, \hFF0F), 0) = 1
            /\ ~requested => Bit(MemRead(memory, \hFF0F), 0) =
                                 Bit(MemRead(obs.pre_memory, \hFF0F), 0)
            /\ obs.vblank_in_sweep = IF ly1 >= 144 THEN 1 ELSE 0

\* The second V-Blank entry of a run.
VBlankOncePerSweepWitness ==
    /\ ~panicked
    /\ obs.vblank_requests = 2
    /\ obs.vblank_at = obs.dots
    /\ obs.vblank_gap = 70666
    /\ MemRead(memory, \hFF44) = 144
    /\ ppu.mode = "VBlank"

\* C13: the buffer screen() returns changes only at V-Blank entry: a
\* Ppu::cycle call that is not the entry into V-Blank leaves every pixel of
\* the front buffer as it was; rendering and the LCD-off clear write to the
\* back buffer, and the buffers are swapped only on entering V-Blank.
FrontChangesAtVBlank ==
    (~panicked /\ obs.dots > 0) =>
        LET entry == obs.pre_ppu.mode = "HBlank" /\ ppu.mode = "VBlank"
        IN  /\ ~entry => Front(ppu) = Front(obs.pre_ppu)
            /\ ~entry => ppu.back = obs.pre_ppu.back
            /\ entry => /\ Front(ppu) = Back(obs.pre_ppu)
                        /\ Back(ppu) = Front(obs.pre_ppu)
            /\ Back(ppu) # Back(obs.pre_ppu) =>
                   \/ entry
                   \/ obs.pre_ppu.mode = "OAMSearch" /\ ppu.mode = "Rendering"

\* In the second frame a row has just been drawn into the back buffer, which
\* now differs from the front buffer shown since the V-Blank entry.
FrontChangesAtVBlankWitness ==
    /\ ~panicked
    /\ obs.vblank_requests = 1
    /\ obs.pre_ppu.mode = "OAMSearch" /\ ppu.mode = "Rendering"
    /\ MemRead(memory, \hFF44) = 0
    /\ Back(ppu) # Back(obs.pre_ppu)
    /\ Front(ppu) = Front(obs.pre_ppu)
    /\ Front(ppu) # NewScreenBuffer

\* C14: the STAT interrupt is edge-triggered: at each dot the STAT line is
\* the OR of the enabled sources (HBlank enable and mode HBlank, VBlank
\* enable and mode VBlank, OAM enable and mode OAMSearch, LYC enable and
\* LY = LYC), and IF bit 1 is requested at a dot iff the line is true at
\* that dot and was false at the dot before; a line that stays true requests
\* nothing more, also after the CPU has cleared IF bit 1.
StatEdge ==
    (~panicked /\ obs.called = "Ppu::cycle") =>
        LET stat == MemRead(obs.pre_memory, \hFF41)
            mode == obs.pre_ppu.mode
            lyc_match == MemRead(obs.pre_memory, \hFF44) =
                            MemRead(obs.pre_memory, \hFF45)
            requested == obs.stat_at = obs.dots
        IN  /\ obs.line <=> \/ Bit(stat, 3) = 1 /\ mode = "HBlank"
                            \/ Bit(stat, 4) = 1 /\ mode = "VBlank"
                            \/ Bit(stat, 5) = 1 /\ mode = "OAMSearch"
                            \/ Bit(stat, 6) = 1 /\ lyc_match
            /\ requested <=> (obs.line /\ ~obs.line_before)
            /\ requested => Bit(MemRead(memory, \hFF0F), 1) = 1
            /\ ~requested => Bit(MemRead(memory, \hFF0F), 1) =
                                 Bit(MemRead(obs.pre_memory, \hFF0F), 1)

\* The HBlank source requested the interrupt, the CPU cleared IF, and the
\* line has stayed true since: IF bit 1 is still clear.
StatEdgeWitness ==
    /\ ~panicked
    /\ obs.called = "Ppu::cycle"
    /\ obs.cpu_writes = 1 /\ obs.mem_address = \hFF0F
    /\ obs.stat_requests = 1
    /\ obs.dots > obs.stat_at + 100
    /\ obs.line /\ obs.line_before
    /\ Bit(MemRead(memory, \hFF0F), 1) = 0

\* C15: with TAC bit 2 set, TIMA increments once every 1024, 16, 64 or 256
\* dots for TAC bits 1-0 = 00, 01, 10, 11; with TAC = 0x05, TMA = 0xAB and
\* TIMA = 0xFF, after exactly 16 dots TIMA is 0xAB and IF bit 2 is set.
TimaRate ==
    (~panicked /\ obs.called = "Timer::cycle") =>
        /\ obs.tima_ticked => obs.tima_gap = TimaDivider(MemRead(memory, \hFF07))
        /\ ( /\ obs.dots = 16 /\ obs.cpu_writes = 0
             /\ MemRead(memory, \hFF07) = \h05 /\ MemRead(memory, \hFF06) = \hAB
             /\ obs.tima0 = \hFF )
           => /\ MemRead(memory, \hFF05) = \hAB
              /\ Bit(MemRead(memory, \hFF0F), 2) = 1

\* What Timer::update_tima does instead: tima_cycle_count runs from 0 up to
\* the divider + 1 before TIMA moves, so TIMA increments every divider + 2
\* dots, and in the example the reload happens at the 18th dot.
TimaRateOfCode ==
    (~panicked /\ obs.called = "Timer::cycle") =>
        /\ obs.tima_ticked => obs.tima_gap = TimaDivider(MemRead(memory, \hFF07)) + 2
        /\ ( /\ obs.cpu_writes = 0
             /\ MemRead(memory, \hFF07) = \h05 /\ MemRead(memory, \hFF06) = \hAB
             /\ obs.tima0 = \hFF )
           => /\ obs.dots < 18 => /\ MemRead(memory, \hFF05) = \hFF
                                  /\ Bit(MemRead(memory, \hFF0F), 2) = 0
              /\ obs.dots = 18 => /\ MemRead(memory, \hFF05) = \hAB
                                  /\ Bit(MemRead(memory, \hFF0F), 2) = 1

\* C16: when a TIMA increment overflows from 0xFF, TIMA is reloaded with TMA
\* and IF bit 2 is set in the same dot; an increment that does not overflow
\* leaves IF unchanged; while TAC bit 2 is clear the timer never changes
\* TIMA.
TimaOverflow ==
    (~panicked /\ obs.called = "Timer::cycle") =>
        LET tima0 == MemRead(obs.pre_memory, \hFF05)
            tima1 == MemRead(memory, \hFF05)
            if0 == MemRead(obs.pre_memory, \hFF0F)
            if1 == MemRead(memory, \hFF0F)
        IN  /\ Bit(MemRead(obs.pre_memory, \hFF07), 2) = 0 =>
                   ~obs.tima_ticked /\ tima1 = tima0
            /\ (obs.tima_ticked /\ tima0 = \hFF) =>
                   /\ tima1 = MemRead(obs.pre_memory, \hFF06)
                   /\ if1 = BitOr(if0, 4)
            /\ (obs.tima_ticked /\ tima0 < \hFF) =>
                   tima1 = tima0 + 1 /\ if1 = if0
            /\ ~obs.tima_ticked => tima1 = tima0 /\ if1 = if0

\* TIMA overflows from 0xFF with TMA = 0xAB: it now holds 0xAB and IF bit 2
\* went from clear to set in this call.
TimaOverflowWitness ==
    /\ ~panicked
    /\ obs.called = "Timer::cycle"
    /\ obs.tima_ticked
    /\ MemRead(obs.pre_memory, \hFF05) = \hFF
    /\ MemRead(memory, \hFF05) = \hAB
    /\ Bit(MemRead(obs.pre_memory, \hFF0F), 2) = 0
    /\ Bit(MemRead(memory, \hFF0F), 2) = 1

\* C17: DIV increments by one (mod 256) every 256th dot, counted from reset
\* or from the last CPU write to 0xFF04.
DivRate ==
    (~panicked /\ obs.called = "Timer::cycle") =>
        /\ obs.div_ticked => obs.div_gap = DivPeriod
        /\ obs.div_ticked =>
               MemRead(memory, \hFF04) = (MemRead(obs.pre_memory, \hFF04) + 1) % 256
        /\ obs.div_since < DivPeriod

\* What Timer::update_div does instead: div_cycle_count runs from 0 up to 256
\* before DIV moves, so DIV increments at every 257th call counted from
\* reset, and a CPU write to 0xFF04 zeroes DIV without restarting the count.
DivRateOfCode ==
    (~panicked /\ obs.called = "Timer::cycle") =>
        /\ obs.div_ticked <=> obs.dots % (DivPeriod + 1) = 0
        /\ obs.div_ticked =>
               MemRead(memory, \hFF04) = (MemRead(obs.pre_memory, \hFF04) + 1) % 256
        /\ ~obs.div_ticked =>
               MemRead(memory, \hFF04) = MemRead(obs.pre_memory, \hFF04)

\* C18: at every step boundary the low nibble of F is zero, whatever the
\* instructions were, POP AF of an arbitrary word included (only bits 7-4 of
\* the popped low byte reach F); so reading a flag never hits the fault of
\* invalid flag bits.
FLowNibbleZero ==
    /\ cpu.f % 16 = 0
    /\ ~obs.flag_fault
    /\ (~panicked /\ obs.opcode = \hF1) =>
           LET low == MemRead(obs.pre_memory, obs.pre_cpu.sp)
           IN  cpu.f = low - (low % 16)

\* POP AF was given a low byte with bits in its low nibble, and an ADC or
\* SBC has since read the carry flag.
FLowNibbleZeroWitness ==
    /\ ~panicked
    /\ obs.opcode \in AdcOpcodes \cup SbcOpcodes
    /\ obs.prev_opcode \in { \hF1, \h06, \h21 }
    /\ MemRead(obs.pre_memory, DataAt) % 16 # 0
    /\ cpu.f % 16 = 0

InWramOrHram(address) ==
    \/ address >= \hC000 /\ address <= \hDFFF
    \/ address >= \hFF80 /\ address <= \hFFFE

\* PUSH of a pair directly followed by POP of the same pair, with the two
\* stack bytes in WRAM or HRAM.
PushThenPop(pair) ==
    /\ ~panicked
    /\ obs.opcode = pair.pop
    /\ obs.prev_opcode = pair.push
    /\ InWramOrHram(Wrap16(obs.prev_cpu.sp + 65535))
    /\ InWramOrHram(Wrap16(obs.prev_cpu.sp + 65534))

\* C19: for every pair rr of BC, DE, HL, AF and every value, with the two
\* stack bytes below SP in WRAM or HRAM, PUSH rr followed by POP rr leaves
\* rr as it was (for AF: A and the high nibble of F) and SP as it was.
PushPopRoundTrip ==
    \A pair \in StackPairs :
        PushThenPop(pair) =>
            /\ cpu.sp = obs.prev_cpu.sp
            /\ IF pair.wreg = "af"
               THEN /\ cpu.a = obs.prev_cpu.a
                    /\ cpu.f \div 16 = obs.prev_cpu.f \div 16
               ELSE GetReg16(cpu, pair.wreg) = GetReg16(obs.prev_cpu, pair.wreg)

\* AF = 0xABC0 (popped from 0xABCD) went through PUSH AF and POP AF with
\* the stack at the top of WRAM.
PushPopRoundTripWitness ==
    /\ PushThenPop([ wreg |-> "af", ld |-> -1, push |-> \hF5, pop |-> \hF1 ])
    /\ obs.prev_cpu.sp = \hE000
    /\ obs.prev_cpu.a = \hAB /\ obs.prev_cpu.f = \hC0
    /\ cpu.a = \hAB /\ cpu.f = \hC0
    /\ MemRead(memory, \hDFFF) = \hAB /\ MemRead(memory, \hDFFE) = \hC0

\* The operand of the add, subtract or compare just executed: B, the byte
\* behind HL, or the byte after the opcode.
AluOperand ==
    IF obs.opcode \in RegOpcodes THEN obs.pre_cpu.b
    ELSE IF obs.opcode \in HlOpcodes
    THEN MemRead(obs.pre_memory, GetReg16(obs.pre_cpu, "hl"))
    ELSE MemRead(obs.pre_memory, Wrap16(obs.pre_cpu.pc + 1))

\* C20: for the accumulator a, the operand b and the carry-in c (0 for ADD,
\* SUB and CP): ADD/ADC give (a+b+c) mod 256, Z iff the result is 0, N = 0,
\* H iff (a&0xF)+(b&0xF)+c > 0xF, C iff a+b+c > 0xFF; SUB/SBC, and CP for
\* the flags only, give (a-b-c) mod 256, Z iff the result is 0, N = 1,
\* H iff (a&0xF)-(b&0xF)-c < 0, C iff a-b-c < 0.
AluFlags ==
    (~panicked /\ obs.opcode \in AluOpcodes) =>
        LET a == obs.pre_cpu.a
            b == AluOperand
            c == IF obs.opcode \in AdcOpcodes \cup SbcOpcodes
                 THEN Bit(obs.pre_cpu.f, 4) ELSE 0
            adds == obs.opcode \in AddOpcodes \cup AdcOpcodes
            result == IF adds THEN (a + b + c) % 256
                      ELSE (a - b - c + 512) % 256
            Flag(k, set) == Bit(cpu.f, k) = (IF set THEN 1 ELSE 0)
        IN  /\ cpu.a = IF obs.opcode \in CpOpcodes THEN a ELSE result
            /\ Flag(7, result = 0)
            /\ Flag(6, ~adds)
            /\ Flag(5, IF adds THEN (a % 16) + (b % 16) + c > 15
                       ELSE (a % 16) - (b % 16) - c < 0)
            /\ Flag(4, IF adds THEN a + b + c > 255 ELSE a - b - c < 0)
            /\ cpu.f % 16 = 0

\* SBC with a = 0x10, b = 0x0F and the carry set: the low nibble borrows
\* only because of the carry, the result is 0 and the byte does not borrow.
AluFlagsWitness ==
    /\ ~panicked
    /\ obs.opcode \in SbcOpcodes
    /\ obs.pre_cpu.a = \h10 /\ AluOperand = \h0F /\ Bit(obs.pre_cpu.f, 4) = 1
    /\ cpu.a = 0 /\ cpu.f = \hE0

\* The number a packed-BCD byte stands for, and the byte for a number.
Decimal(byte) == (byte \div 16) * 10 + (byte % 16)

PackedBcd(n) == (n \div 10) * 16 + (n % 10)

\* DAA has just run, right after ADD A,b or SUB b (opcode `before`) on
\* packed-BCD a and b.
DaaAfter(before) ==
    /\ ~panicked
    /\ obs.opcode = \h27
    /\ obs.prev_opcode = before
    /\ obs.prev_cpu.a \in BcdBytes
    /\ MemRead(memory, Wrap16(obs.prev_cpu.pc + 1)) \in BcdBytes

\* C21: for packed-BCD a and b, DAA right after ADD A,b leaves A the packed
\* BCD of (a+b) mod 100 and C set iff the decimal sum exceeds 99; right after
\* SUB b it leaves the packed BCD of (a-b) mod 100 and C set iff a < b; in
\* both cases Z is set iff the corrected A is 0 and H is clear.
DaaBcd ==
    LET a == Decimal(obs.prev_cpu.a)
        b == Decimal(MemRead(memory, Wrap16(obs.prev_cpu.pc + 1)))
        Flag(k, set) == Bit(cpu.f, k) = (IF set THEN 1 ELSE 0)
    IN  /\ DaaAfter(\hC6) => /\ cpu.a = PackedBcd((a + b) % 100)
                            /\ Flag(4, a + b > 99)
                            /\ Flag(7, cpu.a = 0)
                            /\ Flag(5, FALSE)
        /\ DaaAfter(\hD6) => /\ cpu.a = PackedBcd((a - b + 100) % 100)
                            /\ Flag(4, a < b)
                            /\ Flag(7, cpu.a = 0)
                            /\ Flag(5, FALSE)

\* 0x19 + 0x28 = 0x41 with a half carry; DAA gives 0x47, for 19 + 28 = 47.
DaaBcdWitness ==
    /\ DaaAfter(\hC6)
    /\ obs.prev_cpu.a = \h19
    /\ MemRead(memory, Wrap16(obs.prev_cpu.pc + 1)) = \h28
    /\ obs.pre_cpu.a = \h41 /\ Bit(obs.pre_cpu.f, 5) = 1
    /\ cpu.a = \h47 /\ Bit(cpu.f, 4) = 0

\* C22: on MBC1, after any writes to 0x0000-0x7FFF, bank1 is in 1..31 (low
\* five bits zero store 1), bank2 is in 0..3, mode is bit 0 of the last write
\* to 0x6000-0x7FFF and ram_enabled holds iff the last write to 0x0000-0x1FFF
\* had low nibble 0xA; each write changes only the register its range
\* selects, and nothing else of the cartridge.
MbcRegisters ==
    LET rom == memory.rom
        old == obs.pre_memory.rom
        address == obs.mem_address
        data == obs.mem_data
    IN  rom.mbc = "MBC1" =>
            /\ rom.bank1 >= 1 /\ rom.bank1 <= 31
            /\ rom.bank2 >= 0 /\ rom.bank2 <= 3
            /\ rom.alt_mode <=> (obs.last_mode # -1 /\ obs.last_mode % 2 = 1)
            /\ rom.ram_enabled <=>
                   (obs.last_ram_enable # -1 /\ obs.last_ram_enable % 16 = 10)
            /\ (obs.mem_op = "write" /\ address <= \h7FFF) =>
                   /\ [memory EXCEPT !.rom = old] = obs.pre_memory
                   /\ CASE address <= \h1FFF ->
                             [rom EXCEPT !.ram_enabled = FALSE]
                                 = [old EXCEPT !.ram_enabled = FALSE]
                        [] address <= \h3FFF ->
                             /\ [rom EXCEPT !.bank1 = 1] = [old EXCEPT !.bank1 = 1]
                             /\ rom.bank1 = IF data % 32 = 0 THEN 1 ELSE data % 32
                        [] address <= \h5FFF ->
                             /\ [rom EXCEPT !.bank2 = 0] = [old EXCEPT !.bank2 = 0]
                             /\ rom.bank2 = data % 4
                        [] OTHER ->
                             [rom EXCEPT !.alt_mode = FALSE]
                                 = [old EXCEPT !.alt_mode = FALSE]

\* 0xE0 was written to 0x2000 after bank2 and the mode had been set: bank1
\* holds 1 and the other registers are as they were.
MbcRegistersWitness ==
    /\ memory.rom.mbc = "MBC1"
    /\ obs.mem_op = "write" /\ obs.mem_address = \h2000 /\ obs.mem_data = \hE0
    /\ memory.rom.bank1 = 1
    /\ memory.rom.bank2 = 2
    /\ memory.rom.alt_mode

\* C23: on MBC1 a read at 0x4000-0x7FFF returns the ROM byte of bank
\* (bank2 << 5) | bank1 masked to the bank count (a power of two); a read at
\* 0x0000-0x3FFF returns the byte of bank 0 in simple mode and of bank
\* bank2 << 5, masked, in advanced mode; the ROM index is inside the ROM.
BankedRead ==
    (~panicked /\ obs.mem_op = "read" /\ obs.mem_address <= \h7FFF) =>
        LET rom == memory.rom
            count == rom.rom_len \div \h4000
            bank == IF obs.mem_address >= \h4000
                    THEN (rom.bank2 * 32 + rom.bank1) % count
                    ELSE IF rom.alt_mode THEN (rom.bank2 * 32) % count
                    ELSE 0
            index == bank * \h4000 + (obs.mem_address % \h4000)
        IN  /\ index < rom.rom_len
            /\ obs.mem_result = RomByte(rom, index)
            /\ (rom.rom_len = 2 * 1024 * 1024 /\ obs.mem_address >= \h4000) =>
                   bank = rom.bank2 * 32 + rom.bank1

\* On the 2-MiB ROM with bank1 = 31, bank2 = 3 in advanced mode, 0x4000 reads
\* the first byte of bank 127 and differs from what bank 1 holds there.
BankedReadWitness ==
    /\ ~panicked
    /\ obs.mem_op = "read" /\ obs.mem_address = \h4000
    /\ memory.rom.rom_len = 2 * 1024 * 1024
    /\ memory.rom.bank1 = 31 /\ memory.rom.bank2 = 3 /\ memory.rom.alt_mode
    /\ obs.mem_result = RomByte(memory.rom, 127 * \h4000)
    /\ obs.mem_result # RomByte(memory.rom, \h4000)

\* C24: the external RAM at 0xA000-0xBFFF never faults: on MBC1 with
\* ram_enabled false every read returns 0xFF and every write changes nothing;
\* on NoMBC without RAM every read returns 0xFF; with RAM present (and
\* enabled, on MBC1) a byte written is the byte read back.
ExternalRamFallback ==
    LET rom == obs.pre_memory.rom
        external == obs.mem_address >= \hA000 /\ obs.mem_address <= \hBFFF
        present == rom.external_len > 0 /\ (rom.mbc = "MBC1" => rom.ram_enabled)
    IN  /\ (external /\ obs.mem_op \in { "read", "write" }) => ~panicked
        /\ (external /\ obs.mem_op = "read" /\ ~present) => obs.mem_result = 255
        /\ (external /\ obs.mem_op = "write" /\ rom.mbc = "MBC1"
                /\ ~rom.ram_enabled) => memory = obs.pre_memory
        /\ ( /\ external /\ obs.mem_op = "read" /\ present
             /\ obs.before_read[1] = "write"
             /\ obs.before_read[2] = obs.mem_address )
           => obs.mem_result = obs.before_read[3]

\* What the code does instead: an access the MBC lets through indexes the
\* RAM array with the bus address (plus the bank's offset), so it faults
\* unless the array is longer than the address; MBC1 with its RAM disabled
\* answers as the claim says.
ExternalRamOfCode ==
    LET rom == obs.pre_memory.rom
        external == obs.mem_address >= \hA000 /\ obs.mem_address <= \hBFFF
        reaches == rom.mbc = "MBC1" => rom.ram_enabled
    IN  (external /\ obs.mem_op \in { "read", "write" }) =>
            /\ panicked <=>
                   (reaches /\ rom.external_len <= ExternalIndex(rom, obs.mem_address))
            /\ (obs.mem_op = "read" /\ ~reaches) => obs.mem_result = 255
            /\ (obs.mem_op = "write" /\ ~reaches) => memory = obs.pre_memory
            /\ ( /\ ~panicked /\ reaches /\ obs.mem_op = "read"
                 /\ obs.before_read[1] = "write"
                 /\ obs.before_read[2] = obs.mem_address )
               => obs.mem_result = obs.before_read[3]

\* C25: Gameboy::new returns Err, and neither faults nor returns Ok, when the
\* ROM is too short to contain the header at 0x0133-0x014F, when its length
\* differs from the header's ROM size (32 KiB << n for the size byte n), or
\* when the cartridge type byte is not in 0x00-0x03.
ConstructionFails ==
    LET image == obs.image
        too_short == image.len <= HeaderEnd
        differs == image.size_code > 15 \/ image.len # 32768 * (2 ^ image.size_code)
        unsupported == image.type_code > 3
    IN  (obs.outcome # "" /\ (too_short \/ differs \/ unsupported)) =>
            obs.outcome = "Err" /\ ~panicked

\* What the code does instead: an image of exactly 0x014F bytes passes the
\* length test and faults in the slice of the header, and a size byte of 49
\* or more faults in the size computation where overflow is checked; every
\* other image of the claim gets Err.
ConstructionFailsOfCode ==
    LET image == obs.image
        too_short == image.len <= HeaderEnd
        differs == image.size_code > 15 \/ image.len # 32768 * (2 ^ image.size_code)
        unsupported == image.type_code > 3
    IN  (obs.outcome # "" /\ (too_short \/ differs \/ unsupported)) =>
            IF image.len = HeaderEnd THEN obs.outcome = "panic"
            ELSE IF image.len > HeaderEnd /\ image.size_code >= 49
            THEN obs.outcome \in { "panic", "Err" }
            ELSE obs.outcome = "Err" /\ ~panicked

\* C26: Gameboy::new returns Ok for every ROM whose length equals its
\* header's ROM size and whose type byte is 0x00 (NoMBC) or 0x01, 0x02 or
\* 0x03 (each MBC1).
ConstructionSucceeds ==
    LET image == obs.image
    IN  ( /\ obs.outcome # ""
          /\ image.size_code <= 15 /\ image.len = 32768 * (2 ^ image.size_code)
          /\ image.type_code <= 3 )
        => /\ obs.outcome = "Ok"
           /\ memory.rom.mbc = IF image.type_code = 0 THEN "NoMBC" ELSE "MBC1"

\* What the code does instead: types 0x00, 0x01 and 0x03 are built, type
\* 0x02 (MBC1 with RAM) is refused.
ConstructionSucceedsOfCode ==
    LET image == obs.image
    IN  ( /\ obs.outcome # ""
          /\ image.size_code <= 15 /\ image.len = 32768 * (2 ^ image.size_code)
          /\ image.type_code <= 3 )
        => IF image.type_code = 2 THEN obs.outcome = "Err"
           ELSE /\ obs.outcome = "Ok"
                /\ memory.rom.mbc = IF image.type_code = 0 THEN "NoMBC" ELSE "MBC1"
                /\ memory.rom.rom_len = image.len

\* C27: after each tick the low nibble of 0xFF00 holds the active-low state
\* (0 = pressed) of the selected group: the action buttons (A, B, Select,
\* Start) when bit 4 of the register is 0, the direction buttons (Right,
\* Left, Up, Down) when bit 5 is 0; bits 4-7 are left as written.
JoypadNibble ==
    (~panicked /\ obs.called = "tick") =>
        LET before == MemRead(obs.pre_memory, \hFF00)
            after == MemRead(memory, \hFF00)
            action == joypad.data \div 16
            direction == joypad.data % 16
        IN  /\ after \div 16 = before \div 16
            /\ (Bit(before, 4) = 0 /\ Bit(before, 5) = 1) => after % 16 = 15 - action
            /\ (Bit(before, 5) = 0 /\ Bit(before, 4) = 1) => after % 16 = 15 - direction

\* What the closure does instead: it looks at bit 4 only, and exposes the
\* direction buttons when bit 4 is 0 and the action buttons when it is 1.
JoypadNibbleOfCode ==
    (~panicked /\ obs.called = "tick") =>
        LET before == MemRead(obs.pre_memory, \hFF00)
            after == MemRead(memory, \hFF00)
            action == joypad.data \div 16
            direction == joypad.data % 16
        IN  /\ after \div 16 = before \div 16
            /\ Bit(before, 4) = 0 => after % 16 = 15 - direction
            /\ Bit(before, 4) = 1 => after % 16 = 15 - action

\* C28: the Joypad interrupt (IF bit 4) is requested at a tick only when a
\* bit of the low nibble of 0xFF00 goes from 1 to 0; a tick at which a button
\* is released, or nothing changes, requests none.
JoypadEdge ==
    (~panicked /\ obs.called = "tick" /\ obs.joypad_requested) =>
        \E k \in 0 .. 3 : /\ Bit(MemRead(obs.pre_memory, \hFF00), k) = 1
                          /\ Bit(MemRead(memory, \hFF00), k) = 0

\* What the closure does instead: it requests the interrupt whenever the
\* buttons it exposes differ from the low nibble it found, a release
\* included.
JoypadEdgeOfCode ==
    (~panicked /\ obs.called = "tick") =>
        /\ obs.joypad_requested <=>
               MemRead(memory, \hFF00) % 16 # MemRead(obs.pre_memory, \hFF00) % 16
        /\ obs.joypad_requested => Bit(MemRead(memory, \hFF0F), 4) = 1

\* C29: step() never reaches a fatal assertion in the renderer: whatever the
\* CPU writes to LCDC, the OAM and VRAM, and whenever it does (between a
\* line's OAM search and its rendering included), every tile pixel fetch of
\* a scanline has x and y in 0..7.
FetchInRange == ~obs.fetch_fault

\* When a fetch is out of range: the line's objects were searched as 8x16,
\* one of them has line LY among its rows 8..15, and LCDC says 8x8, objects
\* on, when the line is rendered; writes to the OAM or VRAM do no harm.
FetchInRangeOfCode ==
    obs.fetch_fault =>
        /\ panicked
        /\ obs.searched_double
        /\ Bit(MemRead(memory, \hFF40), 2) = 0
        /\ Bit(MemRead(memory, \hFF40), 1) = 1
        /\ obs.cpu_writes > 0 /\ obs.written_at >= 379
        /\ \E i \in DOMAIN ppu.scanline_objects :
               MemRead(memory, \hFF44) - YTopLeft(ppu.scanline_objects[i]) \in 8 .. 15

\* The fetches that are in range: the line is rendered with the objects
\* found by its OAM search and the object height unchanged.
FetchInRangeReached ==
    /\ ~panicked
    /\ obs.dots = 460
    /\ ppu.mode = "Rendering"
    /\ Len(ppu.scanline_objects) = 2
    /\ obs.written_at = 440

\* The requests of source b (bit b of IF) made since handle_interrupts read
\* IF, that is during the ticks of the service sequence.
RequestedInService(b) ==
    CASE b = 0 -> obs.vblank_requests > obs.requests_before[1]
      [] b = 1 -> obs.stat_requests > obs.requests_before[2]
      [] b = 2 -> obs.timer_requests > obs.requests_before[3]
      [] b = 4 -> obs.joypad_requests > obs.requests_before[5]
      [] OTHER -> FALSE

\* C30: servicing an interrupt clears only the serviced bit of IF: every
\* other bit 0..4 requested before the service, or requested by the PPU, the
\* timer or the joypad during the ticks of the service sequence, is still
\* set in IF when the step ends.
ServiceKeepsOthers ==
    (~panicked /\ obs.serviced # -1) =>
        \A b \in (0 .. 4) \ { obs.serviced } :
            (Bit(obs.requested_read, b) = 1 \/ RequestedInService(b)) =>
                Bit(MemRead(memory, \hFF0F), b) = 1

\* What handle_interrupts does instead: it writes back the five bits it
\* read before the ticks of the sequence, less the serviced one.
ServiceKeepsOthersOfCode ==
    (~panicked /\ obs.serviced # -1) =>
        /\ MemRead(memory, \hFF0F) = (obs.requested_read % 32) - 2 ^ obs.serviced
        /\ \A b \in (0 .. 4) \ { obs.serviced } :
               Bit(obs.requested_read, b) = 1 => Bit(MemRead(memory, \hFF0F), b) = 1

\* A timer request and a STAT request lost in a service.
TimerRequestInService ==
    ~panicked /\ obs.serviced = 0 /\ RequestedInService(2)

StatRequestInService ==
    ~panicked /\ obs.serviced = 0 /\ RequestedInService(1)

\* C31: while the halt flag is set, a step whose tick leaves
\* IE & IF & 0x1F = 0 takes exactly 1 machine cycle, fetches nothing and
\* changes no register, PC or SP (IME alone may go from TurningOn to On);
\* the first step whose tick leaves it non-zero clears the halt flag and
\* fetches in that same step, whatever IME is.
HaltWake ==
    (~panicked /\ obs.steps > 0 /\ obs.pre_cpu.halt) =>
        LET bus == obs.bus
            pending == BitAnd(bus[2][3] % 32, bus[3][3] % 32)
        IN  /\ Len(bus) >= 3
            /\ bus[1][1] = "tick"
            /\ bus[2][1] = "read" /\ bus[2][2] = \hFFFF
            /\ bus[3][1] = "read" /\ bus[3][2] = \hFF0F
            /\ pending = 0 =>
                   /\ Len(bus) = 3
                   /\ obs.returned = 1
                   /\ cpu = [obs.pre_cpu EXCEPT
                               !.master_interrupt_flag =
                                   IF @ = "TurningOn" THEN "On" ELSE @]
            /\ pending # 0 =>
                   /\ Len(bus) >= 4
                   /\ bus[4][1] = "read" /\ bus[4][2] = obs.pre_cpu.pc
                   /\ obs.opcode = bus[4][3]
                   /\ cpu.halt => (obs.op = "Halt" /\ obs.serviced = -1)

\* The CPU stayed halted for a step and woke at a later one, with IME Off
\* (the opcode after HALT runs) and with IME On (the interrupt is serviced).
HaltWakeWitness ==
    /\ ~panicked
    /\ obs.pre_cpu.halt
    /\ obs.woke
    /\ obs.prev_cpu.halt
    /\ obs.serviced = 2
    /\ cpu.pc = \h50

\* The SM83 machine-cycle count of an opcode, given Z and C before it.
OfficialCycles(opcode, z, c) ==
    LET Cond(taken, yes, no) == IF taken THEN yes ELSE no
    IN  CASE opcode \in { \h00, \h80, \hE9 } -> 1
          [] opcode = \h3E -> 2
          [] opcode \in { \h01, \h18, \hC1 } -> 3
          [] opcode = \h20 -> Cond(~z, 3, 2)
          [] opcode = \h28 -> Cond(z, 3, 2)
          [] opcode = \h30 -> Cond(~c, 3, 2)
          [] opcode = \h38 -> Cond(c, 3, 2)
          [] opcode = \hC0 -> Cond(~z, 5, 2)
          [] opcode = \hC8 -> Cond(z, 5, 2)
          [] opcode = \hD0 -> Cond(~c, 5, 2)
          [] opcode = \hD8 -> Cond(c, 5, 2)
          [] opcode \in { \hC9, \hD9, \hC3, \hFF, \hC5 } -> 4
          [] opcode = \hC2 -> Cond(~z, 4, 3)
          [] opcode = \hCA -> Cond(z, 4, 3)
          [] opcode = \hC4 -> Cond(~z, 6, 3)
          [] opcode = \hCC -> Cond(z, 6, 3)
          [] OTHER -> 6

\* The counts of Cpu::execute: RETI takes 3 ticks and a taken RET cc 4.
CyclesOfCode(opcode, z, c) ==
    CASE opcode = \hD9 -> 3
      [] opcode \in { \hC0, \hC8, \hD0, \hD8 } ->
           IF OfficialCycles(opcode, z, c) = 5 THEN 4 ELSE 2
      [] OTHER -> OfficialCycles(opcode, z, c)

\* A step that executed one of the counted opcodes: not halted, nothing
\* serviced.
Executed ==
    /\ ~panicked
    /\ obs.steps > 0
    /\ ~obs.pre_cpu.halt
    /\ obs.serviced = -1
    /\ obs.opcode \in CountedOpcodes

\* C32: for every operation step() executes (not halted, no interrupt
\* serviced) the number of ticks is the SM83 machine-cycle count of the
\* operation, and so lies in 1..6.
CycleCounts ==
    Executed =>
        /\ obs.returned = OfficialCycles(obs.opcode, Bit(obs.pre_cpu.f, 7) = 1,
                                        Bit(obs.pre_cpu.f, 4) = 1)
        /\ obs.returned >= 1 /\ obs.returned <= 6

\* What the code does: the official counts but for RETI and a taken RET cc,
\* which lack the internal cycle.
CycleCountsOfCode ==
    Executed =>
        /\ obs.returned = CyclesOfCode(obs.opcode, Bit(obs.pre_cpu.f, 7) = 1,
                                      Bit(obs.pre_cpu.f, 4) = 1)
        /\ obs.returned >= 1 /\ obs.returned <= 6

\* Every counted opcode is executed, RET Z and CALL Z taken and not taken.
AllCounted ==
    /\ Executed
    /\ obs.opcode = \hCC
    /\ obs.returned = 6

\* A step all of whose bus accesses are the instruction's own: it executed
\* a counted opcode and made no interrupt check (IME was not On at the
\* fetch).
OwnAccesses ==
    /\ Executed
    /\ obs.ime_at_fetch # "On"

\* C33: within a step every bus access an instruction implies (the opcode
\* fetch, each operand fetch, each data read and write) is preceded by its
\* own tick, so no two accesses occur without a tick between them.
TickBeforeAccess ==
    OwnAccesses =>
        \A i \in 1..Len(obs.bus) :
            obs.bus[i][1] # "tick" => (i > 1 /\ obs.bus[i - 1][1] = "tick")

\* What the code does: JR fetches its offset straight after the opcode
\* fetch and ticks twice afterwards; every other access has its own tick.
TickBeforeAccessOfCode ==
    OwnAccesses =>
        /\ \A i \in 1..Len(obs.bus) :
               (obs.bus[i][1] # "tick" /\ ~(obs.opcode = \h18 /\ i = 3)) =>
                   (i > 1 /\ obs.bus[i - 1][1] = "tick")
        /\ obs.opcode = \h18 =>
               /\ Len(obs.bus) = 5
               /\ << obs.bus[1][1], obs.bus[2][1], obs.bus[3][1],
                     obs.bus[4][1], obs.bus[5][1] >>
                      = << "tick", "read", "read", "tick", "tick" >>
               /\ obs.bus[3][2] = Wrap16(obs.pre_cpu.pc + 1)

\* C34: at every dot boundary LY is in 0..153 and the mode is VBlank
\* exactly when LY is in 144..153, whatever the CPU writes to LY or STAT;
\* so no unreachable!() arm of Ppu::cycle is reached.
LyAndMode ==
    /\ ~panicked
    /\ MemRead(memory, \hFF44) \in 0..153
    /\ ppu.mode = "VBlank" <=> MemRead(memory, \hFF44) >= 144

\* LY is back at 0 in OAMSearch after a whole frame during which the CPU
\* wrote to LY.
LyWrapped ==
    /\ obs.cpu_writes > 0
    /\ obs.mem_address = \hFF44
    /\ obs.dots > 70000
    /\ MemRead(memory, \hFF44) = 0
    /\ ppu.mode = "OAMSearch"

\* C35: under repeated calls of step() every step performs at least one
\* tick, so LY takes every value in 0..153 infinitely often and a V-Blank
\* interrupt is requested infinitely often, also with the CPU halted for
\* ever.  LY moves only by increment_ly, one line at a time modulo 154, and
\* is incremented infinitely often: it passes through every value again and
\* again, and the first and last lines of the picture and of V-Blank are
\* seen between steps infinitely often.
PpuProgress ==
    /\ [](obs.called = "step" => obs.returned >= 1)
    /\ [][MemRead(memory', \hFF44)
              = (MemRead(memory, \hFF44) + obs'.ly_increments) % 154]_vars
    /\ []<>(obs.ly_increments > 0)
    /\ \A ly \in { 0, 143, 144, 153 } : []<>(MemRead(memory, \hFF44) = ly)
    /\ []<>(obs.vblank_requests > 0)

\* The CPU is halted and a whole frame has gone by: the buffers have been
\* switched and LY is back at 0.
HaltedFrame ==
    /\ cpu.halt
    /\ obs.returned = 1
    /\ ppu.back = 1
    /\ MemRead(memory, \hFF44) = 0

\* The height of the objects by LCDC bit 2.
ObjHeight == IF Bit(MemRead(memory, \hFF40), 2) = 1 THEN 16 ELSE 8

\* Byte k of entry i of the OAM.
OamByte(i, k) == MemRead(memory, \hFE00 + 4 * i + k)

\* Entry i holds line LY in one of its rows, the top row included.
Eligible(i) ==
    /\ OamByte(i, 0) - 16 <= MemRead(memory, \hFF44)
    /\ MemRead(memory, \hFF44) <= OamByte(i, 0) - 16 + ObjHeight - 1

\* The same without the top row.
EligibleBelowTop(i) ==
    /\ OamByte(i, 0) - 16 < MemRead(memory, \hFF44)
    /\ MemRead(memory, \hFF44) <= OamByte(i, 0) - 16 + ObjHeight - 1

\* Entry i is in the list of the line (the entries differ in x).
Listed(i) ==
    \E k \in 1 .. Len(ppu.scanline_objects) :
        /\ ppu.scanline_objects[k].x = OamByte(i, 1)
        /\ ppu.scanline_objects[k].y = OamByte(i, 0)

\* The OAM search of the line has just run.
Searched == ~panicked /\ obs.dots > 0 /\ ppu.mode = "OAMSearch"

\* Fewer than ten entries before entry i are listed.
Room(i) == Cardinality({ j \in 0 .. i - 1 : Listed(j) }) < 10

\* C36 as stated: an entry is selected iff obj.Y-16 < LY <= obj.Y-16 + H - 1.
SearchEligibilityStrict ==
    Searched =>
        \A i \in 0 .. 39 : Room(i) => (Listed(i) <=> EligibleBelowTop(i))

\* C36 amended: an entry is selected (while the list has room) iff
\* obj.Y-16 <= LY <= obj.Y-16 + H - 1, H = 16 with LCDC bit 2 and 8
\* without; with tall objects the tile index of every selected entry has
\* bit 0 clear, and it is the OAM's tile index otherwise.
SearchEligibility ==
    Searched =>
        /\ \A i \in 0 .. 39 : Room(i) => (Listed(i) <=> Eligible(i))
        /\ \A k \in 1 .. Len(ppu.scanline_objects) :
               LET obj == ppu.scanline_objects[k]
                   tile == OamByte(obj.x - 8, 2)
               IN  obj.tile_index = IF ObjHeight = 16 THEN tile - (tile % 2)
                                    ELSE tile

\* A tall object with an odd tile index is listed on its top row.
TopRowListed ==
    /\ Searched
    /\ ObjHeight = 16
    /\ MemRead(memory, \hFF44) = 4
    /\ Len(ppu.scanline_objects) = 3
    /\ ppu.scanline_objects[2].y = 20
    /\ ppu.scanline_objects[2].tile_index = 4

\* C37: the list of a line never holds more than 10 entries, and after a
\* search it is the first (at most 10) eligible entries of the OAM in
\* ascending order; eligible entries after the tenth are left out.
SearchKeepsFirstTen ==
    /\ Len(ppu.scanline_objects) <= 10
    /\ Searched =>
           LET before(i) == Cardinality({ j \in 0 .. i - 1 : Eligible(j) })
           IN  /\ \A i \in 0 .. 39 :
                      (Eligible(i) /\ before(i) < 10) =>
                          /\ Len(ppu.scanline_objects) > before(i)
                          /\ ppu.scanline_objects[before(i) + 1]
                                 = ObjectAttributes(memory, i, ObjHeight = 16)
               /\ Len(ppu.scanline_objects)
                      <= Cardinality({ i \in 0 .. 39 : Eligible(i) })

\* Twelve entries hold the line and the list stops at the entry before the
\* last two.
TenOfTwelve ==
    /\ Searched
    /\ Cardinality({ i \in 0 .. 39 : Eligible(i) }) = 12
    /\ Len(ppu.scanline_objects) = 10
    /\ ppu.scanline_objects[10].x = 18
    /\ ppu.scanline_objects[7].y = 30

\* The line has been rendered with the objects on.
RenderedWithObjects ==
    /\ ~panicked
    /\ obs.dots > 0
    /\ ppu.mode = "Rendering"
    /\ Bit(MemRead(memory, \hFF40), 1) = 1

\* The colour index object k of the line's list has at pixel px.
ObjIndexAt(k, px) ==
    PixelColorIndex(memory,
                    ObjFetch(ppu.scanline_objects[k],
                             Bit(MemRead(memory, \hFF40), 2) = 1, px,
                             MemRead(memory, \hFF44)))

\* The objects of the list that cover px with a colour index other than 0.
Opaque(px) ==
    { k \in DOMAIN ppu.scanline_objects :
        /\ px >= ppu.scanline_objects[k].x - 8
        /\ px < ppu.scanline_objects[k].x
        /\ ObjIndexAt(k, px) # 0 }

\* The colour the claim gives pixel px: the list is in OAM order, so the
\* lower place in it is the lower OAM index.
ColourByPriority(px) ==
    LET objs == ppu.scanline_objects
        bg == BgPixel(Machine, px, MemRead(memory, \hFF44))
        through_bgp == GetColor(bg, MemRead(memory, \hFF47))
        best == CHOOSE k \in Opaque(px) :
                    \A j \in Opaque(px) \ { k } :
                        \/ objs[j].x > objs[k].x
                        \/ objs[j].x = objs[k].x /\ j > k
    IN  IF Opaque(px) = {} THEN through_bgp
        ELSE IF Bit(objs[best].flags, 7) = 1 /\ bg # 0 THEN through_bgp
        ELSE GetColor(ObjIndexAt(best, px),
                      IF Bit(objs[best].flags, 4) = 0 THEN MemRead(memory, \hFF48)
                      ELSE MemRead(memory, \hFF49))

\* C38: for each pixel of a line rendered with objects enabled, among the
\* line's objects covering it the one with the smallest X whose colour
\* index is not 0 supplies the object pixel, ties going to the lower OAM
\* index; its colour through OBP0 or OBP1 is written unless it is under
\* the background and the background/window colour index is not 0, and
\* then, as where no object supplies a pixel, the background colour
\* through BGP is written.
ObjectPriority ==
    RenderedWithObjects =>
        \A px \in 0 .. 159 :
            (\E k \in DOMAIN ppu.scanline_objects :
                 /\ px >= ppu.scanline_objects[k].x - 8
                 /\ px < ppu.scanline_objects[k].x) =>
                /\ px \in DOMAIN obs.obj_pixels
                /\ obs.obj_pixels[px] = ColourByPriority(px)

\* The later entry of the OAM, with the smaller x, hides the earlier one:
\* pixel 10 has colour index 2 through OBP1 (0xB4) and pixel 14 index 3
\* through OBP0 (0x6C).
SmallerXWins ==
    /\ RenderedWithObjects
    /\ Len(ppu.scanline_objects) = 2
    /\ ppu.scanline_objects[2].x = 14
    /\ Opaque(10) = { 1, 2 }
    /\ obs.obj_pixels[10] = 3
    /\ obs.obj_pixels[14] = 1

\* The call of Ppu::cycle just made rendered line LY with the screen on.
LineRendered ==
    /\ obs.pre_ppu.mode = "OAMSearch"
    /\ ppu.mode = "Rendering"
    /\ Bit(MemRead(memory, \hFF40), 7) = 1

\* Pixel px of line LY was taken from the window.
FromWindow(px) ==
    /\ Bit(MemRead(memory, \hFF40), 5) = 1
    /\ Bit(MemRead(memory, \hFF40), 0) = 1
    /\ px + 7 >= MemRead(memory, \hFF4B)
    /\ MemRead(memory, \hFF44) >= MemRead(memory, \hFF4A)

\* C39: window_line_counter goes up by exactly 1 after a rendered scanline
\* if and only if at least one pixel of the scanline was taken from the
\* window, is left as it is by every other scanline (those skipped with
\* the screen off too), and is 0 again once the PPU has left V-Blank.
WindowCounter ==
    (~panicked /\ obs.dots > 0) =>
        IF obs.pre_ppu.mode = "VBlank" /\ ppu.mode # "VBlank"
        THEN ppu.window_line_counter = 0
        ELSE IF LineRendered /\ \E px \in 0 .. 159 : FromWindow(px)
        THEN ppu.window_line_counter = obs.pre_ppu.window_line_counter + 1
        ELSE ppu.window_line_counter = obs.pre_ppu.window_line_counter

\* Line 143 has been rendered with the window from pixel 93 of line 10 on:
\* 134 lines counted.
WindowCounted ==
    /\ LineRendered
    /\ MemRead(memory, \hFF4B) = 100
    /\ MemRead(memory, \hFF44) = 143
    /\ ppu.window_line_counter = 134

-----------------------------------------------------------------------------
(* 16-bit addition: Gameboy::step on boot programs that load HL and a      *)
(* register pair and add the pair to HL.                                   *)

\* The words added: zero, one, and the values either side of a carry out of
\* bit 7, bit 11 and bit 15.
AddWords ==
    { \h0000, \h0001, \h00FF, \h0100, \h0800, \h0FFF, \h1000, \h7FFF, \h8000,
      \hF000, \hF001, \hFFFF }

\* The register pairs ADD HL,rr takes, with the opcodes of LD rr,d16 and of
\* the addition.
AddPairs ==
    { [ wreg |-> "bc", ld |-> \h01, add |-> \h09 ],
      [ wreg |-> "de", ld |-> \h11, add |-> \h19 ],
      [ wreg |-> "hl", ld |-> \h21, add |-> \h29 ],
      [ wreg |-> "sp", ld |-> \h31, add |-> \h39 ] }

\* The flags before the addition: none; Z and N after SUB of A from itself;
\* N, H and C after 0 - 1.
AddPrologues ==
    { << >>, LdA(1) \o << \hD6, 1 >>, LdA(0) \o << \hD6, 1 >> }

\* The flags set, LD HL,hl; LD rr,rr; ADD HL,rr.
AddProgram(prologue, pair, hl, rr) ==
    prologue \o LdHl(Lo(hl), Hi(hl)) \o << pair.ld, Lo(rr), Hi(rr), pair.add >>

AddPrograms ==
    { AddProgram(prologue, pair, hl, rr) :
        prologue \in AddPrologues, pair \in AddPairs,
        hl \in AddWords, rr \in AddWords }

MaxAddSteps == 5

InitAdd ==
    \E rom \in { NewRom(0, 0, 0) }, bytes \in AddPrograms :
        LET g == NewGameboy(rom, BootImage(bytes))
        IN  /\ memory = g.memory
            /\ cpu = g.cpu
            /\ ppu = g.ppu
            /\ timer = g.timer
            /\ joypad = g.joypad
            /\ panicked = g.panicked
            /\ obs = g.obs

\* One call of Gameboy::step.
AddStep ==
    /\ ~panicked
    /\ obs.steps < MaxAddSteps
    /\ LET Taken(s) == s.obs.op # "Unmodelled" /\ Becomes(s)
       IN  Taken(Step(Machine))

NextAdd == AddStep

SpecAdd == InitAdd /\ [][NextAdd]_vars

\* The step just taken executed ADD HL,rr.
AddedWord ==
    /\ ~panicked
    /\ obs.steps > 0
    /\ obs.serviced = -1
    /\ obs.op = "AddWordRegIntoWordReg"

\* The pair rr of the opcode executed.
AddedPair == (CHOOSE pair \in AddPairs : pair.add = obs.opcode).wreg

\* C40: for all 16-bit hl and rr, ADD HL,rr leaves (hl + rr) mod 65536 in HL,
\* sets H iff (hl & 0x0FFF) + (rr & 0x0FFF) > 0x0FFF, sets C iff
\* hl + rr > 0xFFFF, clears N and leaves Z as it was.
AddWordFlags ==
    AddedWord =>
        LET hl == GetReg16(obs.pre_cpu, "hl")
            rr == GetReg16(obs.pre_cpu, AddedPair)
        IN  /\ GetReg16(cpu, "hl") = (hl + rr) % 65536
            /\ (Bit(cpu.f, 5) = 1) <=> ((hl % 4096) + (rr % 4096) > 4095)
            /\ (Bit(cpu.f, 4) = 1) <=> (hl + rr > 65535)
            /\ Bit(cpu.f, 6) = 0
            /\ Bit(cpu.f, 7) = Bit(obs.pre_cpu.f, 7)

\* ADD HL,BC of 0x0FFF and 0x0001 with Z and N set before: a carry out of
\* bit 11 alone, Z kept.
HalfCarryAcrossBit11 ==
    /\ AddedWord
    /\ obs.opcode = \h09
    /\ GetReg16(obs.pre_cpu, "hl") = \h0FFF
    /\ GetReg16(obs.pre_cpu, "bc") = \h0001
    /\ obs.pre_cpu.f = \hC0
    /\ GetReg16(cpu, "hl") = \h1000
    /\ cpu.f = \hA0

=============================================================================
